---- MODULE Spec2Model ----
(***************************************************************************)
(* Model of the tax calculation engine of Tax-Prep (backend/app/tax_engine) *)
(*                                                                         *)
(* Money is an integer number of cents.  Rates are integer percents.       *)
(* A value that the code holds with more than two decimals before it       *)
(* rounds (a bracket tax being accumulated, a rate times an amount) is a   *)
(* record [c |-> whole cents, h |-> hundredths of a cent, 0..99], so that  *)
(* round(x, 2) is a real rounding step and every product stays inside      *)
(* TLC's 32-bit integers.                                                  *)
(*                                                                         *)
(* The code computes in binary floats.  A value that is not an exact half  *)
(* cent rounds as its exact value does.  An exact half cent that a float   *)
(* holds exactly (a multiple of 1/8) goes to the even cent, as round()     *)
(* does.  Any other exact half cent is held by the float a little above or *)
(* a little below the tie, and round() goes to the nearer cent: the        *)
(* variable half_up says which, and is chosen freely.                      *)
(***************************************************************************)
EXTENDS Integers, Sequences, FiniteSets, TLC

VARIABLES
    registry,       \* TaxFormSolver.registry: form ids in registration order
    dependencies,   \* form id -> the calculator's `dependencies` list
    return_data,    \* the snapshot dict handed to calculate / solve
    order,          \* the list _topological_sort returned
    computed,       \* solve's `computed` dict: form id -> lines of the form
    calls,          \* log of form.calculate invocations made by solve
    pc,             \* position of the running solve / TaxEngine.calculate
    results,        \* results returned by successive TaxEngine.calculate calls
    args,           \* arguments of a direct call of a tax function
    called,         \* which tax function was called directly ("none" before)
    ret,            \* the value that call returned
    half_up,        \* whether round() takes an exact half cent up or down
    threads,        \* the TaxEngine.calculate calls running concurrently
    tables,         \* the module-level parameter tables, shared by all calls
    tax_returns,    \* table tax_returns with the rows related to each return
    w2_incomes,     \* table w2_incomes
    calculation_results,  \* table calculation_results
    response,       \* the response to the latest API request
    calculated_from \* history: the return_data of the latest run_calculation
                    \* that succeeded, per return

vars == <<registry, dependencies, return_data, order, computed, calls, pc,
          results, args, called, ret, half_up, threads, tables, tax_returns,
          w2_incomes, calculation_results, response, calculated_from>>

solverVars == <<registry, dependencies, return_data, order, computed, calls,
                pc, results>>

taxVars == <<args, called, ret, half_up>>

concVars == <<threads, tables>>

apiVars == <<tax_returns, w2_incomes, calculation_results, response,
             calculated_from>>

(***************************************************************************)
(* Bounds of the model                                                     *)
(***************************************************************************)
\* incomes are sampled this many cents below and above every bracket bound
Near == 1

\* longest `dependencies` list of a calculator in the solver model
MaxDeps == 2

\* number of TaxEngine.calculate calls made on one snapshot object
MaxCalls == 2

\* the longest list of capital-asset sales of the capital-gains model
MaxSales == 2

(***************************************************************************)
(* parameters.py                                                           *)
(***************************************************************************)
\* float("inf"): larger than every amount of the model
Inf == 2000000000

FilingStatuses == {"single", "married_filing_jointly"}

TaxBracket(rate, upper_limit) == [rate |-> rate, upper_limit |-> upper_limit]

STANDARD_DEDUCTION ==
    [single |-> 1575000, married_filing_jointly |-> 3150000]

ORDINARY_TAX_BRACKETS ==
    [single |-> <<TaxBracket(10, 1192500), TaxBracket(12, 4847500),
                  TaxBracket(22, 10335000), TaxBracket(24, 19730000),
                  TaxBracket(32, 25052500), TaxBracket(35, 62635000),
                  TaxBracket(37, Inf)>>,
     married_filing_jointly |->
                <<TaxBracket(10, 2385000), TaxBracket(12, 9695000),
                  TaxBracket(22, 20670000), TaxBracket(24, 39460000),
                  TaxBracket(32, 50105000), TaxBracket(35, 75160000),
                  TaxBracket(37, Inf)>>]

LTCG_TAX_BRACKETS ==
    [single |-> <<TaxBracket(0, 4835000), TaxBracket(15, 53340000),
                  TaxBracket(20, Inf)>>,
     married_filing_jointly |->
                <<TaxBracket(0, 9670000), TaxBracket(15, 60005000),
                  TaxBracket(20, Inf)>>]

(***************************************************************************)
(* Arithmetic helpers                                                      *)
(***************************************************************************)
Min(a, b) == IF a <= b THEN a ELSE b

Max(a, b) == IF a >= b THEN a ELSE b

\* the float 0 the accumulators start from
Zero == [c |-> 0, h |-> 0]

\* acc + x/100 cents, for x >= 0 hundredths of a cent (amount in cents times
\* a rate in percent): Python's `tax += taxable_in_bracket * bracket.rate`
AddProduct(acc, x) ==
    LET t == acc.h + (x % 100)
    IN  [c |-> acc.c + (x \div 100) + (t \div 100), h |-> t % 100]

\* whether round(value, 2) takes the value c + 1/2 (in the unit of the
\* second decimal) up: (2c + 1) / 200 is a binary fraction only when 25
\* divides 2c + 1, and round() then goes to the even neighbour
TieUp(c) ==
    IF (2 * c + 1) % 25 = 0 THEN c % 2 = 1 ELSE half_up

\* Python round(value, 2) of a non-negative value: to the nearest cent
Round2(v) ==
    IF v.h > 50 \/ (v.h = 50 /\ TieUp(v.c)) THEN v.c + 1 ELSE v.c

(***************************************************************************)
(* Form1040._calculate_ordinary_tax and Form1040._get_marginal_rate        *)
(***************************************************************************)
RECURSIVE OrdinaryTaxLoop(_, _, _, _, _)
OrdinaryTaxLoop(taxable_income, brackets, i, prev_limit, tax) ==
    IF i > Len(brackets) THEN tax
    ELSE IF taxable_income <= prev_limit THEN tax
    ELSE LET taxable_in_bracket ==
                 Min(taxable_income, brackets[i].upper_limit) - prev_limit
             tax1 == IF taxable_in_bracket > 0
                     THEN AddProduct(tax, taxable_in_bracket * brackets[i].rate)
                     ELSE tax
         IN  OrdinaryTaxLoop(taxable_income, brackets, i + 1,
                             brackets[i].upper_limit, tax1)

\* a version that leaves the loop after the first bracket
CalculateOrdinaryTaxFlat(taxable_income, filing_status) ==
    LET brackets == ORDINARY_TAX_BRACKETS[filing_status]
    IN  IF taxable_income <= 0 THEN 0
        ELSE Round2(AddProduct(Zero,
                 Min(taxable_income, brackets[1].upper_limit) * brackets[1].rate))

CalculateOrdinaryTax(taxable_income, filing_status) ==
    Round2(OrdinaryTaxLoop(taxable_income,
                           ORDINARY_TAX_BRACKETS[filing_status], 1, 0, Zero))

RECURSIVE MarginalRateLoop(_, _, _)
MarginalRateLoop(taxable_income, brackets, i) ==
    IF i > Len(brackets) THEN brackets[Len(brackets)].rate
    ELSE IF taxable_income <= brackets[i].upper_limit THEN brackets[i].rate
    ELSE MarginalRateLoop(taxable_income, brackets, i + 1)

\* a version that compares with `<` and so moves a bound into the next bracket
GetMarginalRateStrict(taxable_income, filing_status) ==
    LET brackets == ORDINARY_TAX_BRACKETS[filing_status]
        below == {i \in 1..Len(brackets) :
                      taxable_income < brackets[i].upper_limit}
    IN  IF below = {} THEN brackets[Len(brackets)].rate
        ELSE brackets[CHOOSE i \in below : \A j \in below : i <= j].rate

GetMarginalRate(taxable_income, filing_status) ==
    MarginalRateLoop(taxable_income, ORDINARY_TAX_BRACKETS[filing_status], 1)

(***************************************************************************)
(* worksheets/qualified_dividends.py                                       *)
(***************************************************************************)
RECURSIVE BracketTaxLoop(_, _, _, _, _)
BracketTaxLoop(income, brackets, i, prev_limit, tax) ==
    IF i > Len(brackets) THEN tax
    ELSE IF income <= prev_limit THEN tax
    ELSE LET taxable_in_bracket ==
                 Min(income, brackets[i].upper_limit) - prev_limit
             tax1 == IF taxable_in_bracket > 0
                     THEN AddProduct(tax, taxable_in_bracket * brackets[i].rate)
                     ELSE tax
         IN  BracketTaxLoop(income, brackets, i + 1,
                            brackets[i].upper_limit, tax1)

CalculateBracketTax(income, filing_status, bracket_type) ==
    LET brackets == IF bracket_type = "ordinary"
                    THEN ORDINARY_TAX_BRACKETS[filing_status]
                    ELSE LTCG_TAX_BRACKETS[filing_status]
    IN  Round2(BracketTaxLoop(income, brackets, 1, 0, Zero))

\* a version of the loop body that leaves the floor where it was
StackedStepNoAdvance(bracket, s) ==
    IF s.income_floor >= bracket.upper_limit THEN s
    ELSE LET room == bracket.upper_limit - s.income_floor
             taxable_in_bracket == Min(s.remaining, room)
         IN  [tax |-> AddProduct(s.tax, taxable_in_bracket * bracket.rate),
              remaining |-> s.remaining - taxable_in_bracket,
              income_floor |-> s.income_floor]

\* the body of the loop of _calculate_stacked_ltcg_tax for one bracket, once
\* `remaining <= 0` has not left the loop
StackedStep(bracket, s) ==
    IF s.income_floor >= bracket.upper_limit THEN s
    ELSE LET room == bracket.upper_limit - s.income_floor
             taxable_in_bracket == Min(s.remaining, room)
         IN  [tax |-> AddProduct(s.tax, taxable_in_bracket * bracket.rate),
              remaining |-> s.remaining - taxable_in_bracket,
              income_floor |-> s.income_floor + taxable_in_bracket]

\* the loop state of _calculate_stacked_ltcg_tax after the loop, from
\* bracket i on
RECURSIVE StackedLoop(_, _, _)
StackedLoop(brackets, i, s) ==
    IF i > Len(brackets) THEN s
    ELSE IF s.remaining <= 0 THEN s
    ELSE StackedLoop(brackets, i + 1, StackedStep(brackets[i], s))

CalculateStackedLtcgTax(ordinary_income, preferential_income, filing_status) ==
    Round2(StackedLoop(LTCG_TAX_BRACKETS[filing_status], 1,
                       [tax |-> Zero, remaining |-> preferential_income,
                        income_floor |-> ordinary_income]).tax)

\* a version that returns the worksheet total without the comparison with
\* the all-ordinary tax
CalculateTaxWithQdcgNoMin(taxable_income, qualified_dividends, net_lt_capital_gain, filing_status) ==
    IF taxable_income <= 0 THEN 0
    ELSE LET preferential_income ==
                 Min(qualified_dividends + net_lt_capital_gain, taxable_income)
             ordinary_income == taxable_income - preferential_income
         IN  CalculateBracketTax(ordinary_income, filing_status, "ordinary")
             + CalculateStackedLtcgTax(ordinary_income, preferential_income,
                                       filing_status)

\* a version that stacks the preferential income from a floor of zero
CalculateTaxWithQdcgUnstacked(taxable_income, qualified_dividends, net_lt_capital_gain, filing_status) ==
    IF taxable_income <= 0 THEN 0
    ELSE LET preferential_income ==
                 Min(qualified_dividends + net_lt_capital_gain, taxable_income)
             ordinary_income == taxable_income - preferential_income
         IN  Min(CalculateBracketTax(ordinary_income, filing_status, "ordinary")
                 + CalculateStackedLtcgTax(0, preferential_income, filing_status),
                 CalculateBracketTax(taxable_income, filing_status, "ordinary"))

CalculateTaxWithQdcg(taxable_income, qualified_dividends, net_lt_capital_gain, filing_status) ==
    IF taxable_income <= 0 THEN 0
    ELSE LET preferential_income ==
                 Min(qualified_dividends + net_lt_capital_gain, taxable_income)
             ordinary_income == taxable_income - preferential_income
             ordinary_tax ==
                 CalculateBracketTax(ordinary_income, filing_status, "ordinary")
             preferential_tax ==
                 CalculateStackedLtcgTax(ordinary_income, preferential_income,
                                         filing_status)
             total == ordinary_tax + preferential_tax
             all_ordinary_tax ==
                 CalculateBracketTax(taxable_income, filing_status, "ordinary")
         IN  Min(total, all_ordinary_tax)

(***************************************************************************)
(* Dict helpers: a dict is a function from string keys                     *)
(***************************************************************************)
\* d.get(key, 0) of a record of amounts
Get(d, key) == IF key \in DOMAIN d THEN d[key] ELSE 0

\* return_data.get(key, []) of a list of records
GetList(d, key) == IF key \in DOMAIN d THEN d[key] ELSE <<>>

\* return_data.get("filing_status", "single")
FilingStatusOf(rd) ==
    IF "filing_status" \in DOMAIN rd THEN rd.filing_status ELSE "single"

\* None and {} are both the empty dict here: the code only tests truthiness
None == <<>>

Truthy(d) == DOMAIN d # {}

\* a version that takes the first record only
SumFieldFirst(records, key) ==
    IF records = <<>> THEN 0 ELSE Get(Head(records), key)

\* sum(float(r.get(key, 0)) for r in records)
RECURSIVE SumField(_, _)
SumField(records, key) ==
    IF records = <<>> THEN 0
    ELSE Get(Head(records), key) + SumField(Tail(records), key)

\* round(n / d, 0) for d > 0: the nearest integer
RoundDiv(n, d) ==
    LET q == n \div d
        r == n % d
    IN  IF 2 * r > d \/ (2 * r = d /\ TieUp(q)) THEN q + 1 ELSE q

(***************************************************************************)
(* forms/base.py                                                           *)
(***************************************************************************)
\* BaseTaxForm.get_line: float(self.lines.get(line_id, 0))
GetLine(lines, line_id) == IF line_id \in DOMAIN lines THEN lines[line_id] ELSE 0

\* other_forms.get(form_id) followed by get_line, 0 when the form is absent
FormLine(other_forms, form_id, line_id) ==
    IF form_id \in DOMAIN other_forms
    THEN GetLine(other_forms[form_id], line_id) ELSE 0

(***************************************************************************)
(* forms/schedule_b.py                                                     *)
(***************************************************************************)
ScheduleBCalculate(rd, other_forms) ==
    LET interest_1099s == GetList(rd, "interest_1099s")
        dividend_1099s == GetList(rd, "dividend_1099s")
        total_interest == SumField(interest_1099s, "box_1_interest")
        total_ordinary_dividends ==
            SumField(dividend_1099s, "box_1a_ordinary_dividends")
    IN  [line_1 |-> total_interest,
         line_4 |-> total_interest,
         line_5 |-> total_ordinary_dividends,
         line_6 |-> total_ordinary_dividends,
         qualified_dividends |->
             SumField(dividend_1099s, "box_1b_qualified_dividends"),
         tax_exempt_interest |->
             SumField(interest_1099s, "box_8_tax_exempt_interest"),
         fed_tax_withheld |->
             SumField(interest_1099s, "box_4_fed_tax_withheld")
             + SumField(dividend_1099s, "box_4_fed_tax_withheld")]

(***************************************************************************)
(* forms/form_8949.py                                                      *)
(***************************************************************************)
\* a version that takes a sale without a holding period for a long-term one
IsShortTermTagged(sale) ==
    IF "holding_period" \in DOMAIN sale
    THEN sale.holding_period = "short_term" ELSE FALSE

\* sale.get("holding_period", "short_term") == "short_term"
IsShortTerm(sale) ==
    IF "holding_period" \in DOMAIN sale
    THEN sale.holding_period = "short_term" ELSE TRUE

\* the eight running totals after the loop over the sales
RECURSIVE Form8949Loop(_, _)
Form8949Loop(sales, t) ==
    IF sales = <<>> THEN t
    ELSE LET sale == Head(sales)
             proceeds == Get(sale, "proceeds")
             basis == Get(sale, "cost_basis")
             adjustment == Get(sale, "adjustment_amount")
             gain_loss == proceeds - basis + adjustment
         IN  Form8949Loop(Tail(sales),
                 IF IsShortTerm(sale)
                 THEN [t EXCEPT !.st_proceeds = @ + proceeds,
                                !.st_basis = @ + basis,
                                !.st_adjustment = @ + adjustment,
                                !.st_gain_loss = @ + gain_loss]
                 ELSE [t EXCEPT !.lt_proceeds = @ + proceeds,
                                !.lt_basis = @ + basis,
                                !.lt_adjustment = @ + adjustment,
                                !.lt_gain_loss = @ + gain_loss])

Form8949Calculate(rd, other_forms) ==
    LET sales == GetList(rd, "capital_asset_sales")
        t == Form8949Loop(sales,
                 [st_proceeds |-> 0, st_basis |-> 0, st_adjustment |-> 0,
                  st_gain_loss |-> 0, lt_proceeds |-> 0, lt_basis |-> 0,
                  lt_adjustment |-> 0, lt_gain_loss |-> 0])
    IN  [st_proceeds |-> t.st_proceeds, st_basis |-> t.st_basis,
         st_adjustment |-> t.st_adjustment, st_gain_loss |-> t.st_gain_loss,
         lt_proceeds |-> t.lt_proceeds, lt_basis |-> t.lt_basis,
         lt_adjustment |-> t.lt_adjustment, lt_gain_loss |-> t.lt_gain_loss,
         transaction_count |-> Len(sales)]

(***************************************************************************)
(* forms/schedule_d.py                                                     *)
(***************************************************************************)
CAPITAL_LOSS_LIMIT == 300000

\* a version whose long-term line leaves the capital gain distributions out
ScheduleDCalculateNoDistributions(rd, other_forms) ==
    LET dividend_1099s == GetList(rd, "dividend_1099s")
        st_gain_loss == FormLine(other_forms, "form_8949", "st_gain_loss")
        lt_gain_loss == FormLine(other_forms, "form_8949", "lt_gain_loss")
        net_capital == st_gain_loss + lt_gain_loss
        allowed_loss == Max(net_capital, -CAPITAL_LOSS_LIMIT)
        common == [line_7 |-> st_gain_loss,
                   line_13 |-> SumField(dividend_1099s, "box_2a_total_capital_gain"),
                   line_15 |-> lt_gain_loss,
                   line_16 |-> net_capital,
                   net_lt_gain |-> Max(0, lt_gain_loss)]
    IN  IF net_capital > 0
        THEN common @@ [line_21 |-> net_capital, has_gain |-> 1]
        ELSE common @@ [line_21 |-> allowed_loss,
                        carryforward_loss |-> net_capital - allowed_loss,
                        has_gain |-> 0]

\* a version that deducts the whole loss and carries nothing forward
ScheduleDCalculateNoLimit(rd, other_forms) ==
    LET dividend_1099s == GetList(rd, "dividend_1099s")
        st_gain_loss == FormLine(other_forms, "form_8949", "st_gain_loss")
        lt_gain_loss == FormLine(other_forms, "form_8949", "lt_gain_loss")
        cap_gain_distributions ==
            SumField(dividend_1099s, "box_2a_total_capital_gain")
        total_lt == lt_gain_loss + cap_gain_distributions
        net_capital == st_gain_loss + total_lt
        common == [line_7 |-> st_gain_loss,
                   line_13 |-> cap_gain_distributions,
                   line_15 |-> total_lt,
                   line_16 |-> net_capital,
                   net_lt_gain |-> Max(0, total_lt)]
    IN  IF net_capital > 0
        THEN common @@ [line_21 |-> net_capital, has_gain |-> 1]
        ELSE common @@ [line_21 |-> net_capital,
                        carryforward_loss |-> 0,
                        has_gain |-> 0]

ScheduleDCalculate(rd, other_forms) ==
    LET dividend_1099s == GetList(rd, "dividend_1099s")
        st_gain_loss == FormLine(other_forms, "form_8949", "st_gain_loss")
        lt_gain_loss == FormLine(other_forms, "form_8949", "lt_gain_loss")
        cap_gain_distributions ==
            SumField(dividend_1099s, "box_2a_total_capital_gain")
        total_lt == lt_gain_loss + cap_gain_distributions
        net_st == st_gain_loss
        net_lt == total_lt
        net_capital == net_st + net_lt
        allowed_loss == Max(net_capital, -CAPITAL_LOSS_LIMIT)
        common == [line_7 |-> st_gain_loss,
                   line_13 |-> cap_gain_distributions,
                   line_15 |-> total_lt,
                   line_16 |-> net_capital,
                   net_lt_gain |-> Max(0, net_lt)]
    IN  IF net_capital > 0
        THEN common @@ [line_21 |-> net_capital, has_gain |-> 1]
        ELSE common @@ [line_21 |-> allowed_loss,
                        carryforward_loss |-> net_capital - allowed_loss,
                        has_gain |-> 0]

(***************************************************************************)
(* forms/schedule_a.py                                                     *)
(* Before set_line rounds them, the medical floor (7.5% of AGI) and the    *)
(* SALT cap (less 30% of the excess AGI) are multiples of 1/40 cent:       *)
(* Schedule A's unrounded amounts are held in fortieths of a cent.         *)
(***************************************************************************)
SALT_CAP_BASE == 4000000

SALT_CAP_FLOOR == 1000000

SALT_PHASE_DOWN_THRESHOLD ==
    [single |-> 50000000, married_filing_jointly |-> 50000000]

\* 0.30 as a fraction
SALT_PHASE_DOWN_RATE == [num |-> 3, den |-> 10]

\* 0.075 as a fraction
MEDICAL_EXPENSE_AGI_FLOOR == [num |-> 3, den |-> 40]

\* an amount of whole cents in fortieths of a cent
Fortieths(cents) == cents * MEDICAL_EXPENSE_AGI_FLOOR.den

\* round(value, 2) of an amount held in fortieths of a cent
RoundFortieths(v) == RoundDiv(v, MEDICAL_EXPENSE_AGI_FLOOR.den)

\* a version whose cap keeps falling below the floor
CalculateSaltCapNoFloor(agi, filing_status) ==
    LET threshold == SALT_PHASE_DOWN_THRESHOLD[filing_status]
        excess == agi - threshold
        reduction == excess * SALT_PHASE_DOWN_RATE.num
                     * (MEDICAL_EXPENSE_AGI_FLOOR.den \div SALT_PHASE_DOWN_RATE.den)
    IN  IF agi <= threshold THEN Fortieths(SALT_CAP_BASE)
        ELSE Fortieths(SALT_CAP_BASE) - reduction

\* ScheduleA._calculate_salt_cap, in fortieths of a cent
CalculateSaltCap(agi, filing_status) ==
    LET threshold == SALT_PHASE_DOWN_THRESHOLD[filing_status]
        excess == agi - threshold
        reduction == excess * SALT_PHASE_DOWN_RATE.num
                     * (MEDICAL_EXPENSE_AGI_FLOOR.den \div SALT_PHASE_DOWN_RATE.den)
    IN  IF agi <= threshold THEN Fortieths(SALT_CAP_BASE)
        ELSE Max(Fortieths(SALT_CAP_FLOOR), Fortieths(SALT_CAP_BASE) - reduction)

\* float(return_data.get("agi", 0))
AgiForScheduleA(rd) == IF "agi" \in DOMAIN rd THEN rd.agi ELSE 0

ScheduleACalculate(rd, other_forms) ==
    LET itemized == IF "itemized_deduction" \in DOMAIN rd
                    THEN rd.itemized_deduction ELSE None
        agi == AgiForScheduleA(rd)
        filing_status == FilingStatusOf(rd)
        medical == Get(itemized, "medical_expenses")
        medical_floor == agi * MEDICAL_EXPENSE_AGI_FLOOR.num
        medical_deduction == Max(0, Fortieths(medical) - medical_floor)
        state_income_tax == Get(itemized, "state_income_tax_paid")
        real_estate_tax == Get(itemized, "real_estate_tax_paid")
        personal_property_tax == Get(itemized, "personal_property_tax")
        total_salt == state_income_tax + real_estate_tax + personal_property_tax
        salt_cap == CalculateSaltCap(agi, filing_status)
        salt_deduction == Min(Fortieths(total_salt), salt_cap)
        mortgage_1098 == Get(itemized, "mortgage_interest_1098")
        mortgage_not_1098 == Get(itemized, "mortgage_interest_not_1098")
        points == Get(itemized, "mortgage_points")
        investment_interest == Get(itemized, "investment_interest")
        total_interest ==
            mortgage_1098 + mortgage_not_1098 + points + investment_interest
        cash_charitable == Get(itemized, "cash_charitable")
        noncash_charitable == Get(itemized, "noncash_charitable")
        carryover == Get(itemized, "carryover_charitable")
        total_charitable == cash_charitable + noncash_charitable + carryover
        casualty == Get(itemized, "casualty_loss")
        other == Get(itemized, "other_deductions")
        total == medical_deduction + salt_deduction
                 + Fortieths(total_interest + total_charitable + casualty + other)
    IN  IF ~Truthy(itemized) THEN [line_17 |-> 0]
        ELSE [line_1 |-> medical,
              line_2 |-> agi,
              line_3 |-> RoundFortieths(medical_floor),
              line_4 |-> RoundFortieths(medical_deduction),
              line_5a |-> state_income_tax,
              line_5b |-> real_estate_tax,
              line_5c |-> personal_property_tax,
              line_5d |-> total_salt,
              line_5e |-> RoundFortieths(salt_deduction),
              line_7 |-> RoundFortieths(salt_deduction),
              line_8a |-> mortgage_1098,
              line_8b |-> mortgage_not_1098,
              line_8c |-> points,
              line_9 |-> investment_interest,
              line_10 |-> total_interest,
              line_11 |-> cash_charitable,
              line_12 |-> noncash_charitable,
              line_13 |-> carryover,
              line_14 |-> total_charitable,
              line_15 |-> casualty,
              line_16 |-> other,
              line_17 |-> RoundFortieths(total)]

(***************************************************************************)
(* forms/form_1040.py                                                      *)
(***************************************************************************)
\* 0.85 as a percentage
SS_TAXABLE_PERCENT == 85

\* Form1040._calculate_taxable_ss: round(total_benefits * 0.85, 2)
CalculateTaxableSs(total_benefits, rd) ==
    IF total_benefits <= 0 THEN 0
    ELSE Round2(AddProduct(Zero, total_benefits * SS_TAXABLE_PERCENT))

\* round(total_tax / agi, 2) as a percentage, for agi > 0 and total_tax >= 0,
\* by long division so that no product leaves the integer range
EffectiveRate(total_tax, agi) ==
    LET q0 == total_tax \div agi
        r0 == total_tax % agi
        d1 == (r0 * 10) \div agi
        r1 == (r0 * 10) % agi
        d2 == (r1 * 10) \div agi
        r2 == (r1 * 10) % agi
        pct == q0 * 100 + d1 * 10 + d2
    IN  IF 2 * r2 > agi \/ (2 * r2 = agi /\ TieUp(pct)) THEN pct + 1 ELSE pct

\* a version that reports the difference on both lines
RefundOrOwedBoth(total_payments, total_tax) ==
    IF total_payments > total_tax
    THEN [line_34 |-> total_payments - total_tax,
          line_35a |-> total_payments - total_tax,
          line_37 |-> total_payments - total_tax]
    ELSE [line_34 |-> 0,
          line_35a |-> total_tax - total_payments,
          line_37 |-> total_tax - total_payments]

\* Form1040.calculate, REFUND OR AMOUNT OWED: lines 34, 35a and 37
RefundOrOwed(total_payments, total_tax) ==
    IF total_payments > total_tax
    THEN [line_34 |-> total_payments - total_tax,
          line_35a |-> total_payments - total_tax,
          line_37 |-> 0]
    ELSE [line_34 |-> 0,
          line_35a |-> 0,
          line_37 |-> total_tax - total_payments]

\* a version that uses the worksheet for qualified dividends only
UseQdcgDividendsOnly(qualified_dividends, net_lt_gain) ==
    qualified_dividends > 0

\* use_qdcg: whether line 16 comes from the preferential-rate worksheet
UseQdcg(qualified_dividends, net_lt_gain) ==
    qualified_dividends > 0 \/ net_lt_gain > 0

\* a version of line 25d that leaves the social-security withholding out
TotalWithheldNoSs(w2_withheld, interest_div_withheld, retirement_withheld, gov_withheld, ss_withheld) ==
    w2_withheld + interest_div_withheld + retirement_withheld + gov_withheld

\* line 25d: the federal tax withheld
TotalWithheld(w2_withheld, interest_div_withheld, retirement_withheld, gov_withheld, ss_withheld) ==
    w2_withheld + interest_div_withheld + retirement_withheld + gov_withheld
    + ss_withheld

\* a version of line 9 that leaves the unemployment compensation out
TotalIncomeNoUnemployment(total_wages, taxable_interest, ordinary_dividends, ira_taxable, ss_taxable, capital_gain_loss, unemployment) ==
    total_wages + taxable_interest + ordinary_dividends + ira_taxable
    + ss_taxable + capital_gain_loss

\* line 9: the total income
TotalIncome(total_wages, taxable_interest, ordinary_dividends, ira_taxable, ss_taxable, capital_gain_loss, unemployment) ==
    total_wages + taxable_interest + ordinary_dividends + ira_taxable
    + ss_taxable + capital_gain_loss + unemployment

\* a version that itemizes as soon as the itemized total reaches the standard
\* deduction
UseItemizedAtLeast(itemized, standard, has_record) ==
    itemized >= standard /\ has_record

\* if itemized > standard and return_data.get("itemized_deduction")
UseItemized(itemized, standard, has_record) ==
    itemized > standard /\ has_record

\* the lines Form1040.calculate sets, and the AGI it writes to return_data
Form1040Calculate(rd, other_forms) ==
    LET filing_status == FilingStatusOf(rd)
        w2s == GetList(rd, "w2_incomes")
        total_wages == SumField(w2s, "box_1_wages")
        tax_exempt_interest ==
            FormLine(other_forms, "schedule_b", "tax_exempt_interest")
        taxable_interest == FormLine(other_forms, "schedule_b", "line_4")
        qualified_dividends ==
            FormLine(other_forms, "schedule_b", "qualified_dividends")
        ordinary_dividends == FormLine(other_forms, "schedule_b", "line_6")
        retirement_1099rs == GetList(rd, "retirement_1099rs")
        ira_total == SumField(retirement_1099rs, "box_1_gross_distribution")
        ira_taxable == SumField(retirement_1099rs, "box_2a_taxable_amount")
        ssa_1099s == GetList(rd, "ssa_1099s")
        ss_total == SumField(ssa_1099s, "box_5_net_benefits")
        ss_taxable == CalculateTaxableSs(ss_total, rd)
        capital_gain_loss == FormLine(other_forms, "schedule_d", "line_21")
        gov_1099gs == GetList(rd, "government_1099gs")
        unemployment == SumField(gov_1099gs, "box_1_unemployment")
        total_income == TotalIncome(total_wages, taxable_interest,
                                    ordinary_dividends, ira_taxable,
                                    ss_taxable, capital_gain_loss,
                                    unemployment)
        adjustments == 0
        agi == total_income - adjustments
        standard == STANDARD_DEDUCTION[filing_status]
        itemized == FormLine(other_forms, "schedule_a", "line_17")
        has_record == IF "itemized_deduction" \in DOMAIN rd
                      THEN Truthy(rd.itemized_deduction) ELSE FALSE
        use_itemized == UseItemized(itemized, standard, has_record)
        deduction == IF use_itemized THEN itemized ELSE standard
        deduction_method == IF use_itemized THEN "itemized" ELSE "standard"
        taxable_income == Max(0, agi - deduction)
        net_lt_gain == FormLine(other_forms, "schedule_d", "net_lt_gain")
        use_qdcg == UseQdcg(qualified_dividends, net_lt_gain)
        tax == IF use_qdcg
               THEN CalculateTaxWithQdcg(taxable_income, qualified_dividends,
                                         net_lt_gain, filing_status)
               ELSE CalculateOrdinaryTax(taxable_income, filing_status)
        ctc == FormLine(other_forms, "schedule_8812", "nonrefundable_ctc")
        schedule_3_credits == FormLine(other_forms, "schedule_3", "line_8")
        total_credits == ctc + schedule_3_credits
        tax_after_credits == Max(0, tax - total_credits)
        total_tax == tax_after_credits
        w2_withheld == SumField(w2s, "box_2_fed_tax_withheld")
        interest_div_withheld ==
            FormLine(other_forms, "schedule_b", "fed_tax_withheld")
        retirement_withheld ==
            SumField(retirement_1099rs, "box_4_fed_tax_withheld")
        gov_withheld == SumField(gov_1099gs, "box_4_fed_tax_withheld")
        ss_withheld == SumField(ssa_1099s, "box_6_voluntary_withholding")
        total_withheld == TotalWithheld(w2_withheld, interest_div_withheld,
                                        retirement_withheld, gov_withheld,
                                        ss_withheld)
        actc == FormLine(other_forms, "schedule_8812", "refundable_ctc")
        refundable_aotc == FormLine(other_forms, "schedule_3", "refundable_aotc")
        total_payments == total_withheld + actc + refundable_aotc
        balance == RefundOrOwed(total_payments, total_tax)
    IN  [agi |-> agi,
         lines |->
           [line_1a |-> total_wages, line_1z |-> total_wages,
            line_2a |-> tax_exempt_interest, line_2b |-> taxable_interest,
            line_3a |-> qualified_dividends, line_3b |-> ordinary_dividends,
            line_4a |-> ira_total, line_4b |-> ira_taxable,
            line_5a |-> 0, line_5b |-> 0,
            line_6a |-> ss_total, line_6b |-> ss_taxable,
            line_7 |-> capital_gain_loss, line_8 |-> unemployment,
            line_9 |-> total_income, line_10 |-> adjustments,
            line_11 |-> agi,
            line_12 |-> deduction, standard_deduction |-> standard,
            itemized_deduction |-> itemized,
            deduction_method |-> deduction_method,
            line_13 |-> 0, line_14 |-> deduction,
            line_15 |-> taxable_income,
            line_16 |-> tax, line_17 |-> 0, line_18 |-> tax,
            line_19 |-> ctc, line_20 |-> total_credits,
            line_21 |-> tax_after_credits, line_22 |-> 0,
            line_23 |-> total_tax, line_24 |-> total_tax,
            line_25a |-> w2_withheld, line_25d |-> total_withheld,
            line_26 |-> 0, line_27 |-> 0, line_28 |-> actc,
            line_29 |-> refundable_aotc, line_33 |-> total_payments,
            line_34 |-> balance.line_34,
            line_35a |-> balance.line_35a,
            line_37 |-> balance.line_37,
            effective_rate |-> IF agi > 0 THEN EffectiveRate(total_tax, agi) ELSE 0,
            marginal_rate |-> GetMarginalRate(taxable_income, filing_status)]]

(***************************************************************************)
(* solver.py: TaxFormSolver                                                *)
(***************************************************************************)
\* form_id in self.registry
InRegistry(reg, form_id) == \E i \in 1..Len(reg) : reg[i] = form_id

\* the state the nested function visit works on: the sets visited and
\* ancestors, the list order, and whether ValueError was raised
SortStart == [visited |-> {}, ancestors |-> {}, order |-> <<>>, failed |-> FALSE]

RECURSIVE Visit(_, _, _, _)
RECURSIVE VisitDeps(_, _, _, _, _)
Visit(reg, deps, s, form_id) ==
    IF s.failed THEN s
    ELSE IF form_id \in s.ancestors THEN [s EXCEPT !.failed = TRUE]
    ELSE IF form_id \in s.visited THEN s
    ELSE LET s1 == [s EXCEPT !.ancestors = @ \cup {form_id}]
             s2 == IF InRegistry(reg, form_id)
                   THEN VisitDeps(reg, deps, s1, deps[form_id], 1)
                   ELSE s1
         IN  IF s2.failed THEN s2
             ELSE [s2 EXCEPT !.visited = @ \cup {form_id},
                             !.ancestors = @ \ {form_id},
                             !.order = Append(@, form_id)]

\* for dep_id in form.dependencies: if dep_id in self.registry: visit(dep_id)
VisitDeps(reg, deps, s, dep_ids, i) ==
    IF i > Len(dep_ids) \/ s.failed THEN s
    ELSE VisitDeps(reg, deps,
                   IF InRegistry(reg, dep_ids[i])
                   THEN Visit(reg, deps, s, dep_ids[i]) ELSE s,
                   dep_ids, i + 1)

\* for form_id in self.registry: visit(form_id, set())
RECURSIVE SortLoop(_, _, _, _)
SortLoop(reg, deps, s, i) ==
    IF i > Len(reg) \/ s.failed THEN s
    ELSE SortLoop(reg, deps,
                  Visit(reg, deps, [s EXCEPT !.ancestors = {}], reg[i]), i + 1)

\* a version that starts no visit from the first registered form, which it
\* reaches only as a dependency
TopologicalSortFromSecond(reg, deps) == SortLoop(reg, deps, SortStart, 2)

\* a version that never raises: it returns whatever order it has built
TopologicalSortTolerant(reg, deps) ==
    [SortLoop(reg, deps, SortStart, 1) EXCEPT !.failed = FALSE]

\* a version that returns the forms dependents first
TopologicalSortPreOrder(reg, deps) ==
    LET s == SortLoop(reg, deps, SortStart, 1)
    IN  [s EXCEPT !.order = [i \in 1..Len(s.order) |-> s.order[Len(s.order) + 1 - i]]]

\* a version that raises when a registered form declares an unregistered one
TopologicalSortStrict(reg, deps) ==
    LET s == SortLoop(reg, deps, SortStart, 1)
        missing == \E i \in 1..Len(reg) : \E j \in 1..Len(deps[reg[i]]) :
                       ~InRegistry(reg, deps[reg[i]][j])
    IN  IF missing THEN [s EXCEPT !.failed = TRUE] ELSE s

\* TaxFormSolver._topological_sort: the order, or failed when it raises
TopologicalSort(reg, deps) == SortLoop(reg, deps, SortStart, 1)

\* a version that hands a calculator its declared dependencies only
OtherFormsDeclaredOnly(form_id, deps, done) ==
    [f \in {g \in DOMAIN done : \E i \in 1..Len(deps[form_id]) : deps[form_id][i] = g}
        |-> done[f]]

\* the dict solve hands to form.calculate as other_forms: `computed` itself
OtherForms(form_id, deps, done) == done

\* a version in which Form 1040 also clears the itemized-deduction record
CalculateClearing(form_id, rd, other_forms) ==
    CASE form_id = "schedule_b" ->
             [lines |-> ScheduleBCalculate(rd, other_forms), return_data |-> rd]
      [] form_id = "form_8949" ->
             [lines |-> Form8949Calculate(rd, other_forms), return_data |-> rd]
      [] form_id = "schedule_d" ->
             [lines |-> ScheduleDCalculate(rd, other_forms), return_data |-> rd]
      [] form_id = "schedule_a" ->
             [lines |-> ScheduleACalculate(rd, other_forms), return_data |-> rd]
      [] form_id = "form_1040" ->
             LET f == Form1040Calculate(rd, other_forms)
             IN  [lines |-> f.lines,
                  return_data |->
                      [k \in DOMAIN rd \cup {"agi"} |->
                          IF k = "agi" THEN f.agi
                          ELSE IF k = "itemized_deduction" THEN None
                          ELSE rd[k]]]

\* form.calculate(return_data, other_forms) of the calculator registered
\* under form_id: the lines it sets and return_data as it leaves it
Calculate(form_id, rd, other_forms) ==
    CASE form_id = "schedule_b" ->
             [lines |-> ScheduleBCalculate(rd, other_forms), return_data |-> rd]
      [] form_id = "form_8949" ->
             [lines |-> Form8949Calculate(rd, other_forms), return_data |-> rd]
      [] form_id = "schedule_d" ->
             [lines |-> ScheduleDCalculate(rd, other_forms), return_data |-> rd]
      [] form_id = "schedule_a" ->
             [lines |-> ScheduleACalculate(rd, other_forms), return_data |-> rd]
      [] form_id = "form_1040" ->
             LET f == Form1040Calculate(rd, other_forms)
             IN  [lines |-> f.lines,
                  return_data |->
                      [k \in DOMAIN rd \cup {"agi"} |->
                          IF k = "agi" THEN f.agi ELSE rd[k]]]

\* solve, first statements: computed = {}; order = self._topological_sort()
SolveSort ==
    /\ pc = "solve"
    /\ LET s == TopologicalSort(registry, dependencies)
       IN  /\ order' = IF s.failed THEN <<>> ELSE s.order
           /\ pc' = IF s.failed THEN "failed" ELSE "run"
    /\ computed' = <<>>
    /\ calls' = <<>>
    /\ UNCHANGED <<registry, dependencies, return_data, results, taxVars, concVars, apiVars>>

\* a version whose calculators index the snapshot and so raise on an absent
\* key
SolveCalculateStrict ==
    /\ pc = "run"
    /\ Len(calls) < Len(order)
    /\ LET form_id == order[Len(calls) + 1]
           other_forms == OtherForms(form_id, dependencies, computed)
           c == Calculate(form_id, return_data, other_forms)
           complete == {"w2_incomes", "interest_1099s", "dividend_1099s",
                        "retirement_1099rs", "government_1099gs", "ssa_1099s",
                        "capital_asset_sales", "itemized_deduction"}
                       \subseteq DOMAIN return_data
       IN  IF complete
           THEN /\ return_data' = c.return_data
                /\ computed' = [f \in DOMAIN computed \cup {form_id} |->
                                   IF f = form_id THEN c.lines ELSE computed[f]]
                /\ calls' = Append(calls, [form_id |-> form_id,
                                           other_forms |-> DOMAIN other_forms])
                /\ pc' = pc
           ELSE /\ pc' = "failed"
                /\ UNCHANGED <<return_data, computed, calls>>
    /\ UNCHANGED <<registry, dependencies, order, results, taxVars, concVars, apiVars>>

\* solve, one iteration of `for form_id in order`
SolveCalculate ==
    /\ pc = "run"
    /\ Len(calls) < Len(order)
    /\ LET form_id == order[Len(calls) + 1]
           other_forms == OtherForms(form_id, dependencies, computed)
           c == Calculate(form_id, return_data, other_forms)
       IN  /\ return_data' = c.return_data
           /\ computed' = [f \in DOMAIN computed \cup {form_id} |->
                              IF f = form_id THEN c.lines ELSE computed[f]]
           /\ calls' = Append(calls, [form_id |-> form_id,
                                      other_forms |-> DOMAIN other_forms])
    /\ UNCHANGED <<registry, dependencies, order, pc, results, taxVars,
                   concVars, apiVars>>

\* solve: return computed
SolveReturn ==
    /\ pc = "run"
    /\ Len(calls) = Len(order)
    /\ pc' = "solved"
    /\ UNCHANGED <<registry, dependencies, return_data, order, computed, calls,
                   results, taxVars, concVars, apiVars>>

(***************************************************************************)
(* engine.py: TaxEngine.calculate                                          *)
(***************************************************************************)
\* the forms TaxEngine.calculate registers, in its order
EngineRegistry ==
    <<"schedule_b", "form_8949", "schedule_d", "schedule_a", "form_1040">>

\* the `dependencies` class attribute of each calculator
FormDependencies ==
    [schedule_b |-> <<>>,
     form_8949 |-> <<>>,
     schedule_d |-> <<"form_8949">>,
     schedule_a |-> <<>>,
     form_1040 |-> <<"schedule_b", "schedule_d", "schedule_a">>]

\* the 1500 dollars of `interest > 1500 or dividends > 1500`
ScheduleBThreshold == 150000

\* a version that requires Schedule B from the threshold on
RequiredFormsAtLeast(forms) ==
    LET needs_b == /\ "schedule_b" \in DOMAIN forms
                   /\ \/ FormLine(forms, "schedule_b", "line_4") >= ScheduleBThreshold
                      \/ FormLine(forms, "schedule_b", "line_6") >= ScheduleBThreshold
        needs_d == /\ "form_8949" \in DOMAIN forms
                   /\ FormLine(forms, "form_8949", "transaction_count") > 0
        needs_a == forms["form_1040"].deduction_method = "itemized"
    IN  <<"form_1040">>
        \o (IF needs_b THEN <<"schedule_b">> ELSE <<>>)
        \o (IF needs_d THEN <<"form_8949", "schedule_d">> ELSE <<>>)
        \o (IF needs_a THEN <<"schedule_a">> ELSE <<>>)

\* the required_forms list
RequiredForms(forms) ==
    LET needs_b == /\ "schedule_b" \in DOMAIN forms
                   /\ \/ FormLine(forms, "schedule_b", "line_4") > ScheduleBThreshold
                      \/ FormLine(forms, "schedule_b", "line_6") > ScheduleBThreshold
        needs_d == /\ "form_8949" \in DOMAIN forms
                   /\ FormLine(forms, "form_8949", "transaction_count") > 0
        needs_a == forms["form_1040"].deduction_method = "itemized"
    IN  <<"form_1040">>
        \o (IF needs_b THEN <<"schedule_b">> ELSE <<>>)
        \o (IF needs_d THEN <<"form_8949", "schedule_d">> ELSE <<>>)
        \o (IF needs_a THEN <<"schedule_a">> ELSE <<>>)

\* the dict TaxEngine.calculate returns
BuildResult(forms) ==
    LET form_1040 == forms["form_1040"]
    IN  [total_income |-> GetLine(form_1040, "line_9"),
         agi |-> GetLine(form_1040, "line_11"),
         taxable_income |-> GetLine(form_1040, "line_15"),
         total_tax |-> GetLine(form_1040, "line_24"),
         total_credits |-> GetLine(form_1040, "line_20"),
         total_payments |-> GetLine(form_1040, "line_33"),
         refund_amount |-> GetLine(form_1040, "line_35a"),
         amount_owed |-> GetLine(form_1040, "line_37"),
         effective_tax_rate |-> GetLine(form_1040, "effective_rate"),
         marginal_tax_rate |-> GetLine(form_1040, "marginal_rate"),
         standard_deduction_amount |-> GetLine(form_1040, "standard_deduction"),
         itemized_deduction_amount |-> GetLine(form_1040, "itemized_deduction"),
         deduction_method |->
             IF "deduction_method" \in DOMAIN form_1040
             THEN form_1040.deduction_method ELSE "standard",
         form_results |-> forms,
         required_forms |-> RequiredForms(forms),
         errors |-> <<>>,
         warnings |-> <<>>]

\* TaxEngine.calculate, up to solver.solve: a new solver, five new forms
EngineRegister ==
    /\ pc = "idle"
    /\ Len(results) < MaxCalls
    /\ registry' = EngineRegistry
    /\ dependencies' = FormDependencies
    /\ order' = <<>>
    /\ computed' = <<>>
    /\ calls' = <<>>
    /\ pc' = "solve"
    /\ UNCHANGED <<return_data, results, taxVars, concVars, apiVars>>

\* TaxEngine.calculate, after solver.solve: build and return the result
EngineReturn ==
    /\ pc = "solved"
    /\ results' = Append(results, BuildResult(computed))
    /\ pc' = "idle"
    /\ UNCHANGED <<registry, dependencies, return_data, order, computed, calls,
                   taxVars, concVars, apiVars>>

(***************************************************************************)
(* Concurrent TaxEngine.calculate calls                                    *)
(***************************************************************************)
\* the module-level tables of parameters.py that every call reads
ParameterTables ==
    [STANDARD_DEDUCTION |-> STANDARD_DEDUCTION,
     ORDINARY_TAX_BRACKETS |-> ORDINARY_TAX_BRACKETS,
     LTCG_TAX_BRACKETS |-> LTCG_TAX_BRACKETS,
     SALT_CAP_BASE |-> SALT_CAP_BASE,
     SALT_CAP_FLOOR |-> SALT_CAP_FLOOR,
     SALT_PHASE_DOWN_THRESHOLD |-> SALT_PHASE_DOWN_THRESHOLD,
     SALT_PHASE_DOWN_RATE |-> SALT_PHASE_DOWN_RATE,
     CAPITAL_LOSS_LIMIT |-> CAPITAL_LOSS_LIMIT,
     SCHEDULE_B_THRESHOLD |-> ScheduleBThreshold,
     MEDICAL_EXPENSE_AGI_FLOOR |-> MEDICAL_EXPENSE_AGI_FLOOR]

\* the two concurrent calls
ThreadIds == {1, 2}

\* a call that has received its snapshot and has not yet built its solver:
\* `snapshot` keeps the value of the argument at the time of the call
ThreadStart(snapshot) ==
    [snapshot |-> snapshot, return_data |-> snapshot, registry |-> <<>>,
     dependencies |-> <<>>, order |-> <<>>, computed |-> <<>>, pc |-> "idle",
     results |-> <<>>]

\* a version in which `lines` is one dict of the class, so that a form reads
\* the lines the other call's form of the same class has set
ThreadOtherFormsShared(t) ==
    LET own == threads[t].computed
    IN  [f \in DOMAIN own |->
            IF \E u \in ThreadIds \ {t} : f \in DOMAIN threads[u].computed
            THEN threads[CHOOSE u \in ThreadIds \ {t} :
                             f \in DOMAIN threads[u].computed].computed[f]
            ELSE own[f]]

\* the other_forms a call's solver hands to form.calculate: the `computed`
\* dict of that call, whose forms were built by that call (self.lines = {})
ThreadOtherForms(t) == threads[t].computed

\* call t: solver = TaxFormSolver() and the five solver.register(...)
ThreadRegister(t) ==
    /\ threads[t].pc = "idle"
    /\ threads' = [threads EXCEPT ![t].registry = EngineRegistry,
                                  ![t].dependencies = FormDependencies,
                                  ![t].pc = "solve"]
    /\ UNCHANGED <<tables, solverVars, taxVars, apiVars>>

\* call t: computed = {}; order = self._topological_sort()
ThreadSort(t) ==
    /\ threads[t].pc = "solve"
    /\ LET s == TopologicalSort(threads[t].registry, threads[t].dependencies)
       IN  threads' = [threads EXCEPT
                          ![t].order = IF s.failed THEN <<>> ELSE s.order,
                          ![t].computed = <<>>,
                          ![t].pc = IF s.failed THEN "failed" ELSE "run"]
    /\ UNCHANGED <<tables, solverVars, taxVars, apiVars>>

\* call t: one iteration of `for form_id in order`
ThreadCalculate(t) ==
    /\ threads[t].pc = "run"
    /\ Len(threads[t].order) > Cardinality(DOMAIN threads[t].computed)
    /\ LET th == threads[t]
           form_id == th.order[Cardinality(DOMAIN th.computed) + 1]
           c == Calculate(form_id, th.return_data, ThreadOtherForms(t))
       IN  threads' = [threads EXCEPT
                          ![t].return_data = c.return_data,
                          ![t].computed =
                              [f \in DOMAIN th.computed \cup {form_id} |->
                                  IF f = form_id THEN c.lines
                                  ELSE th.computed[f]]]
    /\ UNCHANGED <<tables, solverVars, taxVars, apiVars>>

\* call t: solve returns computed
ThreadSolveReturn(t) ==
    /\ threads[t].pc = "run"
    /\ Len(threads[t].order) = Cardinality(DOMAIN threads[t].computed)
    /\ threads' = [threads EXCEPT ![t].pc = "solved"]
    /\ UNCHANGED <<tables, solverVars, taxVars, apiVars>>

\* call t: build and return the result
ThreadReturn(t) ==
    /\ threads[t].pc = "solved"
    /\ threads' = [threads EXCEPT
                      ![t].results = <<BuildResult(threads[t].computed)>>,
                      ![t].pc = "done"]
    /\ UNCHANGED <<tables, solverVars, taxVars, apiVars>>

(***************************************************************************)
(* Direct calls of the tax functions                                       *)
(***************************************************************************)
CallQdcg ==
    /\ called = "none"
    /\ called' = "calculate_tax_with_qdcg"
    /\ ret' = CalculateTaxWithQdcg(args.taxable_income, args.qualified_dividends,
                                   args.net_lt_capital_gain, args.filing_status)
    /\ UNCHANGED <<args, half_up, solverVars, concVars, apiVars>>

CallOrdinaryTax ==
    /\ called = "none"
    /\ called' = "_calculate_ordinary_tax"
    /\ ret' = CalculateOrdinaryTax(args.taxable_income, args.filing_status)
    /\ UNCHANGED <<args, half_up, solverVars, concVars, apiVars>>

CallMarginalRate ==
    /\ called = "none"
    /\ called' = "_get_marginal_rate"
    /\ ret' = GetMarginalRate(args.taxable_income, args.filing_status)
    /\ UNCHANGED <<args, half_up, solverVars, concVars, apiVars>>

\* _calculate_stacked_ltcg_tax, up to the loop: ret holds the locals, the
\* position in the brackets and the part of the income each bracket took
StackedEnter ==
    /\ called = "none"
    /\ called' = "_calculate_stacked_ltcg_tax"
    /\ ret' = [i |-> 1,
               locals |-> [tax |-> Zero,
                           remaining |-> args.preferential_income,
                           income_floor |-> args.ordinary_income],
               portions |-> <<>>,
               returned |-> FALSE,
               value |-> 0]
    /\ UNCHANGED <<args, half_up, solverVars, concVars, apiVars>>

\* _calculate_stacked_ltcg_tax: one iteration of `for bracket in brackets`
StackedBracket ==
    /\ called = "_calculate_stacked_ltcg_tax"
    /\ ~ret.returned
    /\ ret.i <= Len(LTCG_TAX_BRACKETS[args.filing_status])
    /\ ret.locals.remaining > 0
    /\ LET bracket == LTCG_TAX_BRACKETS[args.filing_status][ret.i]
           after == StackedStep(bracket, ret.locals)
       IN  ret' = [ret EXCEPT
                      !.i = @ + 1,
                      !.locals = after,
                      !.portions =
                          IF ret.locals.income_floor >= bracket.upper_limit
                          THEN @
                          ELSE Append(@,
                                 [bracket |-> ret.i,
                                  from |-> ret.locals.income_floor,
                                  amount |-> ret.locals.remaining
                                             - after.remaining,
                                  to |-> after.income_floor])]
    /\ UNCHANGED <<args, called, half_up, solverVars, concVars, apiVars>>

\* _calculate_stacked_ltcg_tax: the loop ends, return round(tax, 2)
StackedReturn ==
    /\ called = "_calculate_stacked_ltcg_tax"
    /\ ~ret.returned
    /\ \/ ret.i > Len(LTCG_TAX_BRACKETS[args.filing_status])
       \/ ret.locals.remaining <= 0
    /\ ret' = [ret EXCEPT !.returned = TRUE, !.value = Round2(ret.locals.tax)]
    /\ UNCHANGED <<args, called, half_up, solverVars, concVars, apiVars>>

\* ScheduleA._calculate_salt_cap(agi, filing_status), in fortieths of a cent
CallSaltCap ==
    /\ called = "none"
    /\ called' = "_calculate_salt_cap"
    /\ ret' = CalculateSaltCap(args.agi, args.filing_status)
    /\ UNCHANGED <<args, half_up, solverVars, concVars, apiVars>>

\* ScheduleA().calculate(return_data, {}) on a snapshot that carries an AGI
CallScheduleA ==
    /\ called = "none"
    /\ called' = "ScheduleA.calculate"
    /\ ret' = ScheduleACalculate(args, <<>>)
    /\ UNCHANGED <<args, half_up, solverVars, concVars, apiVars>>

(***************************************************************************)
(* Inputs                                                                  *)
(***************************************************************************)
\* the finite upper limits of a bracket table
FiniteLimits(table) ==
    UNION {{table[fs][i].upper_limit : i \in 1..(Len(table[fs]) - 1)} :
               fs \in FilingStatuses}

BracketBounds ==
    FiniteLimits(ORDINARY_TAX_BRACKETS) \cup FiniteLimits(LTCG_TAX_BRACKETS)

\* taxable incomes: around every bracket bound, around zero, and inside brackets
TaxableSamples ==
    {-100, 0, 1, 5, 15, 50, 10001, 5925000, 11850000, 70000000}
    \cup {b + d : b \in BracketBounds, d \in (-Near)..Near}

QdSamples == {0, 1, 12500, 1000000}

GainSamples == {0, 7, 12500, 5000000}

W2(wages, withheld) ==
    [box_1_wages |-> wages, box_2_fed_tax_withheld |-> withheld]

\* wage lists: the two documented scenarios, a return whose withholding equals
\* its tax, one that owes, and wages that put the taxable income on or one
\* cent above each ordinary bracket bound
W2Samples ==
    {<<>>,
     <<W2(7500000, 950000)>>,
     <<W2(7500000, 794900)>>,
     <<W2(10000000, 500000)>>,
     <<W2(9000000, 1200000), W2(6000000, 700000)>>}
    \cup {<<W2(ORDINARY_TAX_BRACKETS[fs][i].upper_limit
               + STANDARD_DEDUCTION[fs] + d, 0)>> :
              fs \in FilingStatuses, i \in 1..6, d \in {0, 1}}

InterestSamples ==
    {<<>>,
     <<[box_1_interest |-> ScheduleBThreshold]>>,
     <<[box_1_interest |-> 200000, box_4_fed_tax_withheld |-> 1000,
        box_8_tax_exempt_interest |-> 10000]>>}

DividendSamples ==
    {<<>>,
     <<[box_1a_ordinary_dividends |-> 300000,
        box_1b_qualified_dividends |-> 200000,
        box_2a_total_capital_gain |-> 50000,
        box_4_fed_tax_withheld |-> 10000]>>}

\* retirement, government and social-security records, present together
OtherIncomeSamples ==
    {[retirement_1099rs |-> <<>>, government_1099gs |-> <<>>, ssa_1099s |-> <<>>],
     [retirement_1099rs |->
          <<[box_1_gross_distribution |-> 2000000,
             box_2a_taxable_amount |-> 1500000,
             box_4_fed_tax_withheld |-> 150000]>>,
      government_1099gs |->
          <<[box_1_unemployment |-> 400000, box_4_fed_tax_withheld |-> 40000]>>,
      ssa_1099s |->
          <<[box_5_net_benefits |-> 1234567,
             box_6_voluntary_withholding |-> 50000]>>]}

Sale(proceeds, basis, adjustment, holding) ==
    [proceeds |-> proceeds, cost_basis |-> basis,
     adjustment_amount |-> adjustment, holding_period |-> holding]

SaleSamples ==
    {<<>>,
     <<Sale(1000000, 800000, 0, "short_term"),
       Sale(2000000, 1500000, 10000, "long_term")>>,
     <<Sale(100000, 1100000, 0, "long_term")>>}

\* the sales the capital-gains model draws its lists from: gains and losses
\* of both holding periods, a loss of exactly the limit, one above it, a sale
\* with a tag that is neither holding period, and a record without a holding
\* period or an adjustment
SalePool ==
    {Sale(1000000, 800000, 0, "short_term"),
     Sale(400000, 500000, 0, "short_term"),
     Sale(2000000, 1500000, 10000, "long_term"),
     Sale(200000, 500000, 0, "long_term"),
     Sale(100000, 1100000, 0, "long_term"),
     Sale(300000, 100000, 5000, "unknown"),
     [proceeds |-> 150000, cost_basis |-> 100000]}

\* the lists of up to MaxSales sales
SaleLists == UNION {[1..k -> SalePool] : k \in 0..MaxSales}

\* the snapshot of the capital-gains model: only sales and dividend records
CapitalSnapshot(sales, dividend_1099s) ==
    [filing_status |-> "single", w2_incomes |-> <<>>, interest_1099s |-> <<>>,
     dividend_1099s |-> dividend_1099s, retirement_1099rs |-> <<>>,
     government_1099gs |-> <<>>, ssa_1099s |-> <<>>,
     capital_asset_sales |-> sales, itemized_deduction |-> None,
     dependents |-> <<>>]

\* no record, a record whose medical expenses meet the AGI floor, the
\* documented itemized scenario, state taxes above the cap, and a record whose
\* total is exactly the standard deduction of a single filer
ItemizedSamples ==
    {None,
     [medical_expenses |-> 3000000],
     [mortgage_interest_1098 |-> STANDARD_DEDUCTION["single"]],
     [state_income_tax_paid |-> 800000, real_estate_tax_paid |-> 600000,
      mortgage_interest_1098 |-> 1200000, cash_charitable |-> 500000],
     [state_income_tax_paid |-> 5000000, medical_expenses |-> 100001]}

\* the income record lists of a snapshot
IncomeKeys ==
    {"w2_incomes", "interest_1099s", "dividend_1099s", "retirement_1099rs",
     "government_1099gs", "ssa_1099s"}

\* the other optional keys: no record, no sales, no dependents
OtherKeys == {"itemized_deduction", "capital_asset_sales", "dependents"}

\* a snapshot with a record of every income source and nothing else
FullIncome(fs) ==
    [filing_status |-> fs,
     w2_incomes |-> <<W2(7500000, 950000)>>,
     interest_1099s |->
         <<[box_1_interest |-> 200000, box_4_fed_tax_withheld |-> 1000,
            box_8_tax_exempt_interest |-> 10000]>>,
     dividend_1099s |->
         <<[box_1a_ordinary_dividends |-> 300000,
            box_1b_qualified_dividends |-> 200000,
            box_2a_total_capital_gain |-> 0,
            box_4_fed_tax_withheld |-> 10000]>>,
     retirement_1099rs |->
         <<[box_1_gross_distribution |-> 2000000,
            box_2a_taxable_amount |-> 1500000,
            box_4_fed_tax_withheld |-> 150000]>>,
     government_1099gs |->
         <<[box_1_unemployment |-> 400000, box_4_fed_tax_withheld |-> 40000]>>,
     ssa_1099s |->
         <<[box_5_net_benefits |-> 1234567,
            box_6_voluntary_withholding |-> 50000]>>,
     capital_asset_sales |-> <<>>,
     itemized_deduction |-> None,
     dependents |-> <<>>]

\* FullIncome with each income list kept, emptied or left out, and the other
\* optional keys all present or all left out
SparseSnapshots ==
    {[k \in {k \in DOMAIN FullIncome(fs) :
                 /\ k \in IncomeKeys => how[k] # "absent"
                 /\ k \in OtherKeys => others} |->
         IF k \in IncomeKeys /\ how[k] = "empty" THEN <<>>
         ELSE FullIncome(fs)[k]] :
        fs \in FilingStatuses,
        how \in [IncomeKeys -> {"records", "empty", "absent"}],
        others \in BOOLEAN}

\* fresh snapshots: no "agi" key yet
Snapshots ==
    {[filing_status |-> fs, w2_incomes |-> w, interest_1099s |-> i,
      dividend_1099s |-> d, retirement_1099rs |-> o.retirement_1099rs,
      government_1099gs |-> o.government_1099gs, ssa_1099s |-> o.ssa_1099s,
      capital_asset_sales |-> c, itemized_deduction |-> it,
      dependents |-> <<>>] :
        fs \in FilingStatuses, w \in W2Samples, i \in InterestSamples,
        d \in DividendSamples, o \in OtherIncomeSamples, c \in SaleSamples,
        it \in ItemizedSamples}

\* form ids of the solver model
SolverIds == {"form_1040", "schedule_d", "form_8949"}

\* the lists over S without repetition, of up to n elements
SeqsNoRep(S, n) ==
    {q \in UNION {[1..k -> S] : k \in 0..n} :
        \A i, j \in 1..Len(q) : i # j => q[i] # q[j]}

DepLists == SeqsNoRep(SolverIds, MaxDeps)

Registries == SeqsNoRep(SolverIds, Cardinality(SolverIds))

\* the snapshot the solver model runs on
SolverSnapshot ==
    [filing_status |-> "single", w2_incomes |-> <<W2(7500000, 950000)>>,
     interest_1099s |-> <<>>, dividend_1099s |-> <<>>,
     retirement_1099rs |-> <<>>, government_1099gs |-> <<>>,
     ssa_1099s |-> <<>>,
     capital_asset_sales |-> <<Sale(2000000, 1500000, 0, "long_term")>>,
     itemized_deduction |-> None, dependents |-> <<>>]

NoArgs ==
    [taxable_income |-> 0, qualified_dividends |-> 0,
     net_lt_capital_gain |-> 0, filing_status |-> "single"]

(***************************************************************************)
(* Specifications                                                          *)
(***************************************************************************)
TaxIdle ==
    args = NoArgs /\ called = "none" /\ ret = 0 /\ half_up \in BOOLEAN

\* no concurrent call is running
ConcIdle == threads = <<>> /\ tables = ParameterTables

\* no API request has been made and the database is not in use
NoResponse ==
    [request |-> "none", return_id |-> "none", status |-> 0, body |-> <<>>]

ApiIdle ==
    /\ tax_returns = <<>>
    /\ w2_incomes = <<>>
    /\ calculation_results = <<>>
    /\ response = NoResponse
    /\ calculated_from = <<>>

SolverIdle ==
    /\ registry = <<>>
    /\ dependencies = <<>>
    /\ return_data = SolverSnapshot
    /\ order = <<>>
    /\ computed = <<>>
    /\ calls = <<>>
    /\ pc = "idle"
    /\ results = <<>>

\* Spec: TaxEngine.calculate, called up to MaxCalls times on one snapshot
Init ==
    /\ return_data \in Snapshots
    /\ registry = <<>>
    /\ dependencies = <<>>
    /\ order = <<>>
    /\ computed = <<>>
    /\ calls = <<>>
    /\ pc = "idle"
    /\ results = <<>>
    /\ TaxIdle
    /\ ConcIdle
    /\ ApiIdle

Next ==
    \/ EngineRegister
    \/ SolveSort
    \/ SolveCalculate
    \/ SolveReturn
    \/ EngineReturn

Spec == Init /\ [][Next]_vars

\* SpecSolver: one TaxFormSolver.solve over any registry and dependencies
InitSolver ==
    /\ registry \in Registries
    /\ dependencies \in [{registry[i] : i \in 1..Len(registry)} -> DepLists]
    /\ return_data = SolverSnapshot
    /\ order = <<>>
    /\ computed = <<>>
    /\ calls = <<>>
    /\ pc = "solve"
    /\ results = <<>>
    /\ TaxIdle
    /\ ConcIdle
    /\ ApiIdle

NextSolver ==
    \/ SolveSort
    \/ SolveCalculate
    \/ SolveReturn

SpecSolver == InitSolver /\ [][NextSolver]_vars

\* SpecTax: one direct call of a tax function on sampled arguments
InitTax ==
    /\ args \in [taxable_income : TaxableSamples,
                 qualified_dividends : QdSamples,
                 net_lt_capital_gain : GainSamples,
                 filing_status : FilingStatuses]
    /\ called = "none"
    /\ ret = 0
    /\ half_up \in BOOLEAN
    /\ SolverIdle
    /\ ConcIdle
    /\ ApiIdle

NextTax ==
    \/ CallQdcg
    \/ CallOrdinaryTax
    \/ CallMarginalRate

SpecTax == InitTax /\ [][NextTax]_vars

\* SpecCapital: one solve of Form 8949 and Schedule D over lists of sales
InitCapital ==
    /\ registry = <<"schedule_d", "form_8949">>
    /\ dependencies = [f \in {"schedule_d", "form_8949"} |-> FormDependencies[f]]
    /\ return_data \in {CapitalSnapshot(sales, d) :
                            sales \in SaleLists, d \in DividendSamples}
    /\ order = <<>>
    /\ computed = <<>>
    /\ calls = <<>>
    /\ pc = "solve"
    /\ results = <<>>
    /\ TaxIdle
    /\ ConcIdle
    /\ ApiIdle

NextCapital ==
    \/ SolveSort
    \/ SolveCalculate
    \/ SolveReturn

SpecCapital == InitCapital /\ [][NextCapital]_vars

\* SpecSparse: TaxEngine.calculate on snapshots with empty and absent lists
InitSparse ==
    /\ return_data \in SparseSnapshots
    /\ registry = <<>>
    /\ dependencies = <<>>
    /\ order = <<>>
    /\ computed = <<>>
    /\ calls = <<>>
    /\ pc = "idle"
    /\ results = <<>>
    /\ TaxIdle
    /\ ConcIdle
    /\ ApiIdle

SpecSparse == InitSparse /\ [][Next]_vars

\* the snapshots of the concurrent calls: both filing statuses, one and two
\* W-2s, with and without an itemized-deduction record
ConcSnapshots ==
    {[filing_status |-> fs, w2_incomes |-> w,
      interest_1099s |-> <<[box_1_interest |-> 200000,
                            box_4_fed_tax_withheld |-> 1000,
                            box_8_tax_exempt_interest |-> 10000]>>,
      dividend_1099s |-> <<>>, retirement_1099rs |-> <<>>,
      government_1099gs |-> <<>>, ssa_1099s |-> <<>>,
      capital_asset_sales |-> <<Sale(1000000, 800000, 0, "short_term"),
                                Sale(2000000, 1500000, 10000, "long_term")>>,
      itemized_deduction |-> it, dependents |-> <<>>] :
        fs \in FilingStatuses,
        w \in {<<W2(7500000, 950000)>>,
               <<W2(9000000, 1200000), W2(6000000, 700000)>>},
        it \in {None,
                [state_income_tax_paid |-> 800000,
                 real_estate_tax_paid |-> 600000,
                 mortgage_interest_1098 |-> 1200000,
                 cash_charitable |-> 500000]}}

\* SpecConcurrent: two TaxEngine.calculate calls, each on its own snapshot,
\* whose steps interleave freely
InitConcurrent ==
    /\ threads \in [ThreadIds -> {ThreadStart(s) : s \in ConcSnapshots}]
    /\ tables = ParameterTables
    /\ SolverIdle
    /\ TaxIdle
    /\ ApiIdle

NextConcurrent ==
    \E t \in ThreadIds :
        \/ ThreadRegister(t)
        \/ ThreadSort(t)
        \/ ThreadCalculate(t)
        \/ ThreadSolveReturn(t)
        \/ ThreadReturn(t)

SpecConcurrent == InitConcurrent /\ [][NextConcurrent]_vars

\* ordinary incomes: none, a cent, and on and around every bound of the
\* preferential brackets
OrdinaryIncomeSamples ==
    {0, 1, 2500000}
    \cup {b + d : b \in FiniteLimits(LTCG_TAX_BRACKETS), d \in (-Near)..Near}

\* preferential incomes: none, a cent, inside one bracket, and enough to
\* cross every bracket from an ordinary income of zero
PreferentialIncomeSamples == {0, 1, 12500, 1000000, 50000000, 70000000}

\* SpecStacked: one call of _calculate_stacked_ltcg_tax, bracket by bracket
InitStacked ==
    /\ args \in [ordinary_income : OrdinaryIncomeSamples,
                 preferential_income : PreferentialIncomeSamples,
                 filing_status : FilingStatuses]
    /\ called = "none"
    /\ ret = 0
    /\ half_up \in BOOLEAN
    /\ SolverIdle
    /\ ConcIdle
    /\ ApiIdle

NextStacked ==
    \/ StackedEnter
    \/ StackedBracket
    \/ StackedReturn

SpecStacked == InitStacked /\ [][NextStacked]_vars

\* adjusted gross incomes: none, the documented wages, one whose 7.5% and
\* whose 30% of the excess are not whole cents, one far above the phase-down,
\* and the incomes around the phase-down threshold and around the income at
\* which the cap reaches its floor
AgiSamples ==
    {0, 7500000, 52500033, 100000000}
    \cup {SALT_PHASE_DOWN_THRESHOLD[fs] + d :
              fs \in FilingStatuses, d \in (-Near)..Near}
    \cup {SALT_PHASE_DOWN_THRESHOLD[fs]
           + ((SALT_CAP_BASE - SALT_CAP_FLOOR) * SALT_PHASE_DOWN_RATE.den)
             \div SALT_PHASE_DOWN_RATE.num + d :
              fs \in FilingStatuses, d \in (-Near)..Near}

\* SpecScheduleA: one direct call of Schedule A or of its cap function on a
\* snapshot that carries an AGI
InitScheduleA ==
    /\ args \in [agi : AgiSamples, filing_status : FilingStatuses,
                 itemized_deduction : ItemizedSamples]
    /\ called = "none"
    /\ ret = 0
    /\ half_up \in BOOLEAN
    /\ SolverIdle
    /\ ConcIdle
    /\ ApiIdle

NextScheduleA ==
    \/ CallSaltCap
    \/ CallScheduleA

SpecScheduleA == InitScheduleA /\ [][NextScheduleA]_vars

(***************************************************************************)
(* Vocabulary of the properties                                            *)
(***************************************************************************)
Registered == {registry[i] : i \in 1..Len(registry)}

\* the registered forms a registered form declares as dependencies
DeclaredDeps(form_id) ==
    IF form_id \in DOMAIN dependencies
    THEN {dependencies[form_id][i] : i \in 1..Len(dependencies[form_id])}
    ELSE {}

RegisteredDeps(form_id) == DeclaredDeps(form_id) \cap Registered

RECURSIVE Closure(_, _)
Closure(S, n) ==
    IF n = 0 THEN S
    ELSE Closure(S \cup UNION {RegisteredDeps(g) : g \in S}, n - 1)

\* the forms reached from form_id along one or more declared dependencies
ReachedFrom(form_id) == Closure(RegisteredDeps(form_id), Cardinality(Registered))

OnCycle(form_id) == form_id \in ReachedFrom(form_id)

HasCycle == \E f \in Registered : OnCycle(f)

\* the forms calculate was invoked on before the i-th invocation
CalledBefore(i) == {calls[j].form_id : j \in 1..(i - 1)}

\* rate times the part of [lo, hi] that lies in each bracket, summed, unrounded
RECURSIVE SliceSum(_, _, _, _)
SliceSum(brackets, i, lo, hi) ==
    IF i = 0 THEN Zero
    ELSE LET lower == IF i = 1 THEN 0 ELSE brackets[i - 1].upper_limit
             part == Min(hi, brackets[i].upper_limit) - Max(lo, lower)
         IN  AddProduct(SliceSum(brackets, i - 1, lo, hi),
                        Max(0, part) * brackets[i].rate)

OrdinarySum(income, fs) ==
    SliceSum(ORDINARY_TAX_BRACKETS[fs], Len(ORDINARY_TAX_BRACKETS[fs]), 0, income)

StackedSum(ordinary, preferential, fs) ==
    SliceSum(LTCG_TAX_BRACKETS[fs], Len(LTCG_TAX_BRACKETS[fs]),
             ordinary, ordinary + preferential)

(***************************************************************************)
(* C1: over an acyclic registry, solve invokes calculate on every          *)
(* registered calculator, and on each only after it has invoked calculate  *)
(* on every registered calculator it declares as a dependency.             *)
(***************************************************************************)
C1_DependenciesFirst ==
    ~HasCycle =>
        /\ pc # "failed"
        /\ \A i \in 1..Len(calls) :
               RegisteredDeps(calls[i].form_id) \subseteq CalledBefore(i)
        /\ pc = "solved" => {calls[i].form_id : i \in 1..Len(calls)} = Registered

\* a finished solve of three forms in which a form was registered before a
\* form it depends on
C1_Witness ==
    /\ pc = "solved"
    /\ Len(calls) = 3
    /\ \E i, j \in 1..Len(registry) :
           i < j /\ registry[j] \in RegisteredDeps(registry[i])

(***************************************************************************)
(* C2: when the declared dependencies contain a cycle (a self-dependency   *)
(* included), solve fails, whatever the registration order, and before any *)
(* calculate ran: nothing is computed.                                     *)
(***************************************************************************)
C2_CycleFailsFirst ==
    HasCycle =>
        /\ pc \in {"solve", "failed"}
        /\ pc = "solve" => ENABLED SolveSort
        /\ calls = <<>>
        /\ DOMAIN computed = {}

\* a failed solve of three forms whose first registered form is on no cycle
C2_Witness ==
    /\ pc = "failed"
    /\ Len(registry) = 3
    /\ ~OnCycle(registry[1])
    /\ \E f \in Registered : OnCycle(f) /\ f \notin DeclaredDeps(f)

(***************************************************************************)
(* C3 as stated: the map handed to a calculator holds only forms the       *)
(* calculator declares as dependencies.                                    *)
(***************************************************************************)
C3_OnlyDeclaredDependencies ==
    \A i \in 1..Len(calls) :
        calls[i].other_forms \subseteq DeclaredDeps(calls[i].form_id)

(***************************************************************************)
(* C3 amended: the map handed to a calculator holds every form computed    *)
(* earlier in the solve, declared by the calculator or not, and so every   *)
(* registered form it declares.                                            *)
(***************************************************************************)
C3_AllFormsComputedSoFar ==
    \A i \in 1..Len(calls) :
        /\ calls[i].other_forms = CalledBefore(i)
        /\ ~HasCycle => RegisteredDeps(calls[i].form_id) \subseteq calls[i].other_forms

\* Form 1040 is handed form_8949, which it does not declare
C3_Witness ==
    \E i \in 1..Len(calls) :
        /\ calls[i].form_id = "form_1040"
        /\ "form_8949" \in calls[i].other_forms
        /\ "form_8949" \notin DeclaredDeps("form_1040")

(***************************************************************************)
(* C4: in a calculate run on a fresh snapshot with an itemized-deduction   *)
(* record, the AGI Schedule A used for the medical floor and the SALT cap  *)
(* (its line 2) equals the AGI Form 1040 computed in that run (line 11).   *)
(***************************************************************************)
C4_ScheduleAUsesForm1040Agi ==
    (/\ pc = "solved"
     /\ results = <<>>
     /\ Truthy(return_data.itemized_deduction))
    => GetLine(computed["schedule_a"], "line_2")
       = GetLine(computed["form_1040"], "line_11")

\* a first run in which Form 1040 computes a positive AGI while Schedule A
\* used an AGI of zero: the medical expenses are deducted without a floor
C4_Witness ==
    /\ pc = "solved"
    /\ results = <<>>
    /\ Truthy(return_data.itemized_deduction)
    /\ GetLine(computed["form_1040"], "line_11") > 0
    /\ GetLine(computed["schedule_a"], "line_2") = 0
    /\ GetLine(computed["schedule_a"], "line_1") > 0
    /\ GetLine(computed["schedule_a"], "line_4")
       = GetLine(computed["schedule_a"], "line_1")

(***************************************************************************)
(* C5 as stated: in every result exactly one of refund_amount and          *)
(* amount_owed is non-zero, and it equals |total_payments - total_tax|.    *)
(***************************************************************************)
C5_ExactlyOneNonZero ==
    \A i \in 1..Len(results) :
        LET r == results[i]
            diff == r.total_payments - r.total_tax
        IN  \/ /\ r.refund_amount # 0
               /\ r.amount_owed = 0
               /\ r.refund_amount = Max(diff, -diff)
            \/ /\ r.refund_amount = 0
               /\ r.amount_owed # 0
               /\ r.amount_owed = Max(diff, -diff)

(***************************************************************************)
(* C5 amended: in every result at most one of refund_amount and            *)
(* amount_owed is non-zero; when total_payments differs from total_tax     *)
(* exactly one is non-zero and equals |total_payments - total_tax|, and    *)
(* when they are equal both are zero.                                      *)
(***************************************************************************)
C5_AtMostOneNonZero ==
    \A i \in 1..Len(results) :
        LET r == results[i]
            diff == r.total_payments - r.total_tax
        IN  /\ r.refund_amount = Max(diff, 0)
            /\ r.amount_owed = Max(-diff, 0)
            /\ r.refund_amount = 0 \/ r.amount_owed = 0
            /\ diff = 0 <=> (r.refund_amount = 0 /\ r.amount_owed = 0)

\* a result whose withholding equals its positive tax: both amounts are zero
C5_Witness ==
    \E i \in 1..Len(results) :
        /\ results[i].total_tax > 0
        /\ results[i].total_payments = results[i].total_tax
        /\ results[i].refund_amount = 0
        /\ results[i].amount_owed = 0

(***************************************************************************)
(* C6: two successive calculate calls on the same snapshot object return   *)
(* the same totals and the same per-form line maps.                        *)
(***************************************************************************)
C6_SameResultTwice ==
    Len(results) >= 2 => results[2] = results[1]

\* two calls on one snapshot whose taxable incomes differ, the second having
\* read the AGI the first wrote into the snapshot
C6_Witness ==
    /\ Len(results) = 2
    /\ results[1].agi = results[2].agi
    /\ results[1].taxable_income < results[2].taxable_income

(***************************************************************************)
(* C7: the value calculate_tax_with_qdcg returns is never greater than the *)
(* ordinary-bracket tax on the whole taxable income.                       *)
(***************************************************************************)
C7_NeverAboveOrdinary ==
    called = "calculate_tax_with_qdcg"
    => ret <= CalculateOrdinaryTax(args.taxable_income, args.filing_status)

\* a call in which the worksheet total is above the all-ordinary tax
C7_Witness ==
    /\ called = "calculate_tax_with_qdcg"
    /\ args.taxable_income > 0
    /\ LET preferential ==
               Min(args.qualified_dividends + args.net_lt_capital_gain,
                   args.taxable_income)
           ordinary == args.taxable_income - preferential
       IN  Round2(OrdinarySum(ordinary, args.filing_status))
           + Round2(StackedSum(ordinary, preferential, args.filing_status))
           > ret

(***************************************************************************)
(* C8: calculate_tax_with_qdcg returns 0 for a taxable income of 0 or      *)
(* less; otherwise, with preferential = min(qualified dividends + net      *)
(* long-term gain, taxable income) and ordinary = taxable income -         *)
(* preferential, it returns the smaller of (ordinary-bracket tax on        *)
(* ordinary + preferential-bracket tax on preferential stacked from the    *)
(* floor ordinary) and the ordinary-bracket tax on the taxable income.     *)
(***************************************************************************)
C8_WorksheetValue ==
    called = "calculate_tax_with_qdcg" =>
        LET fs == args.filing_status
            preferential ==
                Min(args.qualified_dividends + args.net_lt_capital_gain,
                    args.taxable_income)
            ordinary == args.taxable_income - preferential
        IN  IF args.taxable_income <= 0 THEN ret = 0
            ELSE ret = Min(Round2(OrdinarySum(ordinary, fs))
                           + Round2(StackedSum(ordinary, preferential, fs)),
                           Round2(OrdinarySum(args.taxable_income, fs)))

\* a call whose preferential income starts in the 0% bracket, on top of a
\* positive ordinary income, and ends above it
C8_Witness ==
    /\ called = "calculate_tax_with_qdcg"
    /\ LET fs == args.filing_status
           preferential ==
               Min(args.qualified_dividends + args.net_lt_capital_gain,
                   args.taxable_income)
           ordinary == args.taxable_income - preferential
       IN  /\ ordinary > 0
           /\ ordinary < LTCG_TAX_BRACKETS[fs][1].upper_limit
           /\ ordinary + preferential > LTCG_TAX_BRACKETS[fs][1].upper_limit
           /\ ret > 0

(***************************************************************************)
(* C9 as stated: for a non-negative taxable income _calculate_ordinary_tax *)
(* equals the sum over the ordinary brackets of rate times the part of the *)
(* income between the previous bound and the bracket's bound, and it is    *)
(* non-decreasing in the taxable income.                                   *)
(***************************************************************************)
C9_EqualsBracketSum ==
    (called = "_calculate_ordinary_tax" /\ args.taxable_income >= 0) =>
        /\ OrdinarySum(args.taxable_income, args.filing_status)
           = [c |-> ret, h |-> 0]
        /\ \A x \in TaxableSamples :
               x <= args.taxable_income
               => CalculateOrdinaryTax(x, args.filing_status) <= ret

(***************************************************************************)
(* C9 amended: for a non-negative taxable income _calculate_ordinary_tax   *)
(* equals that sum rounded to the nearest cent, and it is non-decreasing   *)
(* in the taxable income.                                                  *)
(***************************************************************************)
C9_EqualsRoundedBracketSum ==
    (called = "_calculate_ordinary_tax" /\ args.taxable_income >= 0) =>
        /\ ret = Round2(OrdinarySum(args.taxable_income, args.filing_status))
        /\ \A x \in TaxableSamples :
               x <= args.taxable_income
               => CalculateOrdinaryTax(x, args.filing_status) <= ret

\* an income above the first bracket whose bracket sum is not a whole cent
C9_Witness ==
    /\ called = "_calculate_ordinary_tax"
    /\ args.taxable_income
       > ORDINARY_TAX_BRACKETS[args.filing_status][1].upper_limit
    /\ OrdinarySum(args.taxable_income, args.filing_status).h # 0
    /\ ret > 0

(***************************************************************************)
(* C10: the marginal_tax_rate of a result is the rate of the first         *)
(* ordinary bracket whose upper bound is at least the taxable income: a    *)
(* taxable income equal to a bracket's upper bound gets that bracket's     *)
(* rate, not the next one's.                                               *)
(***************************************************************************)
ContainingBracket(taxable_income, fs) ==
    LET b == ORDINARY_TAX_BRACKETS[fs]
    IN  CHOOSE i \in 1..Len(b) :
            /\ taxable_income <= b[i].upper_limit
            /\ \A j \in 1..(i - 1) : taxable_income > b[j].upper_limit

C10_MarginalRateOfContainingBracket ==
    \A i \in 1..Len(results) :
        LET fs == FilingStatusOf(return_data)
        IN  results[i].marginal_tax_rate
            = ORDINARY_TAX_BRACKETS[fs][
                  ContainingBracket(results[i].taxable_income, fs)].rate

\* a result whose taxable income is the upper bound of the 24% bracket
C10_Witness ==
    \E i \in 1..Len(results) :
        LET b == ORDINARY_TAX_BRACKETS[FilingStatusOf(return_data)]
        IN  /\ results[i].taxable_income = b[4].upper_limit
            /\ results[i].marginal_tax_rate = b[4].rate

\* the sum over the sales of proceeds - cost basis + adjustment
RECURSIVE SumGainLoss(_)
SumGainLoss(sales) ==
    IF sales = <<>> THEN 0
    ELSE Get(Head(sales), "proceeds") - Get(Head(sales), "cost_basis")
         + Get(Head(sales), "adjustment_amount") + SumGainLoss(Tail(sales))

(***************************************************************************)
(* C11: Schedule D's net short-term (line 7) plus net long-term (line 15)  *)
(* equals the sum over all sales of proceeds - cost basis + adjustment     *)
(* plus the capital gain distributions, and line 16 is line 7 + line 15.   *)
(***************************************************************************)
C11_NetsAddUp ==
    "schedule_d" \in DOMAIN computed =>
        LET d == computed["schedule_d"]
        IN  /\ d.line_7 + d.line_15
               = SumGainLoss(return_data.capital_asset_sales)
                 + SumField(return_data.dividend_1099s,
                            "box_2a_total_capital_gain")
            /\ d.line_16 = d.line_7 + d.line_15

\* a solve over a short-term and a long-term sale and a dividend record with
\* capital gain distributions
C11_Witness ==
    /\ pc = "solved"
    /\ Len(return_data.capital_asset_sales) = 2
    /\ computed["form_8949"].st_gain_loss # 0
    /\ computed["form_8949"].lt_gain_loss # 0
    /\ computed["schedule_d"].line_13 > 0
    /\ computed["schedule_d"].line_16 # 0

(***************************************************************************)
(* C12: when Schedule D's combined net capital result (line 16) is a loss, *)
(* line 21 is max(combined, -3000 dollars) and carryforward_loss is        *)
(* combined - line 21; when it is a gain, line 21 is the combined net and  *)
(* no carryforward is recorded.                                            *)
(***************************************************************************)
C12_LossLimited ==
    "schedule_d" \in DOMAIN computed =>
        LET d == computed["schedule_d"]
            combined == d.line_16
        IN  /\ combined < 0 =>
                   /\ d.line_21 = Max(combined, -CAPITAL_LOSS_LIMIT)
                   /\ d.carryforward_loss = combined - d.line_21
            /\ combined > 0 =>
                   /\ d.line_21 = combined
                   /\ "carryforward_loss" \notin DOMAIN d

\* a solve whose combined loss is beyond the limit: part of it is carried
C12_Witness ==
    /\ pc = "solved"
    /\ computed["schedule_d"].line_16 < -CAPITAL_LOSS_LIMIT
    /\ computed["schedule_d"].line_21 = -CAPITAL_LOSS_LIMIT
    /\ computed["schedule_d"].carryforward_loss < 0

(***************************************************************************)
(* C13: the deduction method of a result is "itemized" exactly when an     *)
(* itemized-deduction record is present and the Schedule A total (line 17) *)
(* is strictly greater than the standard deduction of the filing status,   *)
(* and "standard" otherwise; taxable income is max(0, AGI - the chosen     *)
(* deduction).                                                             *)
(***************************************************************************)
C13_DeductionMethod ==
    \A i \in 1..Len(results) :
        LET r == results[i]
            standard == STANDARD_DEDUCTION[FilingStatusOf(return_data)]
            line_17 == GetLine(r.form_results["schedule_a"], "line_17")
            itemizes == /\ Truthy(return_data.itemized_deduction)
                        /\ line_17 > standard
            chosen == IF itemizes THEN line_17 ELSE standard
        IN  /\ r.deduction_method = (IF itemizes THEN "itemized" ELSE "standard")
            /\ r.taxable_income = Max(0, r.agi - chosen)

\* a result with a record whose Schedule A total is exactly the standard
\* deduction: the method is standard
C13_Witness ==
    \E i \in 1..Len(results) :
        /\ Truthy(return_data.itemized_deduction)
        /\ GetLine(results[i].form_results["schedule_a"], "line_17")
           = STANDARD_DEDUCTION[FilingStatusOf(return_data)]
        /\ results[i].deduction_method = "standard"
        /\ results[i].taxable_income > 0

\* the snapshot holds wage records only and no itemized-deduction record
WagesOnly ==
    /\ return_data.interest_1099s = <<>>
    /\ return_data.dividend_1099s = <<>>
    /\ return_data.retirement_1099rs = <<>>
    /\ return_data.government_1099gs = <<>>
    /\ return_data.ssa_1099s = <<>>
    /\ return_data.capital_asset_sales = <<>>
    /\ ~Truthy(return_data.itemized_deduction)

\* the wages and the withholding of the wage records, added one by one
RECURSIVE WageTotal(_, _)
WageTotal(w2s, box) ==
    IF w2s = <<>> THEN 0 ELSE Head(w2s)[box] + WageTotal(Tail(w2s), box)

(***************************************************************************)
(* C14: for a return with wage records only and no itemized-deduction      *)
(* record, taxable income is max(0, total wages - standard deduction),     *)
(* total tax is the ordinary-bracket tax on it, and the refund is total    *)
(* withheld - total tax when the withholding exceeds the tax.  Single with *)
(* 75,000 wages and 9,500 withheld gives 59,250 / 7,949.00 / 1,551.00;     *)
(* married filing jointly with 90,000 + 60,000 wages and 19,000 withheld   *)
(* gives 118,500 / 15,898.00 / 3,102.00.                                   *)
(***************************************************************************)
C14_WagesOnlyReturn ==
    WagesOnly =>
        \A i \in 1..Len(results) :
            LET r == results[i]
                fs == FilingStatusOf(return_data)
                w2s == return_data.w2_incomes
                wages == WageTotal(w2s, "box_1_wages")
                withheld == WageTotal(w2s, "box_2_fed_tax_withheld")
                taxable_income == Max(0, wages - STANDARD_DEDUCTION[fs])
            IN  /\ r.taxable_income = taxable_income
                /\ r.total_tax = Round2(OrdinarySum(taxable_income, fs))
                /\ withheld > r.total_tax
                   => r.refund_amount = withheld - r.total_tax
                /\ (fs = "single" /\ w2s = <<W2(7500000, 950000)>>)
                   => /\ r.taxable_income = 5925000
                      /\ r.total_tax = 794900
                      /\ r.refund_amount = 155100
                /\ (/\ fs = "married_filing_jointly"
                    /\ w2s = <<W2(9000000, 1200000), W2(6000000, 700000)>>)
                   => /\ r.taxable_income = 11850000
                      /\ r.total_tax = 1589800
                      /\ r.refund_amount = 310200

\* the result of the documented joint return of two wage records
C14_Witness ==
    /\ WagesOnly
    /\ FilingStatusOf(return_data) = "married_filing_jointly"
    /\ Len(return_data.w2_incomes) = 2
    /\ \E i \in 1..Len(results) :
           /\ results[i].total_income = 15000000
           /\ results[i].refund_amount = 310200

\* the elements of a list
Range(q) == {q[i] : i \in 1..Len(q)}

(***************************************************************************)
(* C15: required_forms starts with form_1040; it contains schedule_b       *)
(* exactly when Schedule B's taxable interest (line 4) or ordinary         *)
(* dividends (line 6) exceeds 1500 dollars; it contains form_8949 and      *)
(* schedule_d, both together, exactly when there is at least one           *)
(* capital-asset sale record; and it contains schedule_a exactly when the  *)
(* deduction method is itemized.                                           *)
(***************************************************************************)
C15_RequiredForms ==
    \A i \in 1..Len(results) :
        LET r == results[i]
            required == Range(r.required_forms)
            b == r.form_results["schedule_b"]
            has_sales == Len(return_data.capital_asset_sales) > 0
        IN  /\ r.required_forms[1] = "form_1040"
            /\ "schedule_b" \in required
               <=> (b.line_4 > 150000 \/ b.line_6 > 150000)
            /\ "form_8949" \in required <=> has_sales
            /\ "schedule_d" \in required <=> has_sales
            /\ "schedule_a" \in required <=> r.deduction_method = "itemized"

\* a result with interest of exactly 1500 dollars and no dividends, and with
\* sales: Schedule B is not required, Form 8949 and Schedule D are
C15_Witness ==
    \E i \in 1..Len(results) :
        /\ results[i].form_results["schedule_b"].line_4 = 150000
        /\ results[i].form_results["schedule_b"].line_6 = 0
        /\ Len(return_data.capital_asset_sales) > 0
        /\ results[i].required_forms = <<"form_1040", "form_8949", "schedule_d">>

\* the forms a registered form declares that are not registered
MissingDeps(form_id) == DeclaredDeps(form_id) \ Registered

NoRecords(key) == GetList(return_data, key) = <<>>

(***************************************************************************)
(* C17: on a snapshot with no itemized-deduction record, no sales, no      *)
(* dependents and any of the income lists empty or absent, calculate       *)
(* completes: it never fails and every form is computed; each source       *)
(* without records contributes zero income and zero withholding,           *)
(* the deduction method is standard, and required_forms lists no form for  *)
(* the sources without records.                                            *)
(***************************************************************************)
C17_AbsentSourcesAreZero ==
    /\ pc # "failed"
    /\ pc = "run" => Len(calls) <= Len(order)
    /\ pc = "solved" => DOMAIN computed = Range(EngineRegistry)
    /\ \A i \in 1..Len(results) :
           LET r == results[i]
               f == r.form_results["form_1040"]
               present == {k \in IncomeKeys : ~NoRecords(k)}
               Income(k) ==
                   CASE k = "w2_incomes" -> f.line_1a
                     [] k = "interest_1099s" -> f.line_2b
                     [] k = "dividend_1099s" -> f.line_3b
                     [] k = "retirement_1099rs" -> f.line_4b
                     [] k = "government_1099gs" -> f.line_8
                     [] k = "ssa_1099s" -> f.line_6b
               Withheld(k) ==
                   SumField(GetList(return_data, k),
                            CASE k = "w2_incomes" -> "box_2_fed_tax_withheld"
                              [] k = "ssa_1099s" -> "box_6_voluntary_withholding"
                              [] OTHER -> "box_4_fed_tax_withheld")
               Total(S, Op(_)) ==
                   LET RECURSIVE Sum(_)
                       Sum(T) == IF T = {} THEN 0
                                 ELSE LET k == CHOOSE k \in T : TRUE
                                      IN  Op(k) + Sum(T \ {k})
                   IN  Sum(S)
           IN  /\ \A k \in IncomeKeys \ present : Income(k) = 0
               /\ r.total_income = Total(present, Income)
               /\ r.total_payments = Total(present, Withheld)
               /\ NoRecords("dividend_1099s") => f.line_3a = 0
               /\ NoRecords("retirement_1099rs") => f.line_4a = 0
               /\ NoRecords("ssa_1099s") => f.line_6a = 0
               /\ r.deduction_method = "standard"
               /\ r.required_forms[1] = "form_1040"
               /\ Range(r.required_forms) \subseteq {"form_1040", "schedule_b"}
               /\ (NoRecords("interest_1099s") /\ NoRecords("dividend_1099s"))
                  => r.required_forms = <<"form_1040">>

\* a result of a snapshot that holds wage records and no other key but the
\* filing status
C17_Witness ==
    /\ DOMAIN return_data = {"filing_status", "w2_incomes", "agi"}
    /\ Len(results) >= 1
    /\ results[1].total_income > 0
    /\ results[1].total_tax > 0
    /\ results[1].required_forms = <<"form_1040">>

(***************************************************************************)
(* C18: TaxEngine.calculate leaves the snapshot unchanged except for one   *)
(* key: no step changes or removes an input field or adds a key other than *)
(* "agi", and after a call "agi" holds the AGI Form 1040 computed.         *)
(***************************************************************************)
C18_OnlyAgiWritten ==
    /\ [][/\ \A k \in DOMAIN return_data \ {"agi"} :
                /\ k \in DOMAIN return_data'
                /\ return_data'[k] = return_data[k]
           /\ DOMAIN return_data' \subseteq DOMAIN return_data \cup {"agi"}]_vars
    /\ [](Len(results) >= 1 /\ pc = "idle"
          => /\ "agi" \in DOMAIN return_data
             /\ return_data.agi = results[Len(results)].agi)

\* a finished call on a snapshot with wages, sales and an itemized record:
\* the snapshot has gained the key "agi", with a positive AGI
C18_Witness ==
    /\ pc = "idle"
    /\ Len(results) = 1
    /\ "agi" \in DOMAIN return_data
    /\ return_data.agi > 0
    /\ Truthy(return_data.itemized_deduction)
    /\ Len(return_data.capital_asset_sales) > 0
    /\ Len(return_data.w2_incomes) > 0

(***************************************************************************)
(* Concurrent calls                                                        *)
(***************************************************************************)
RECURSIVE RunForms(_, _, _, _)
\* the forms one solve computes from position i of the order on, and the
\* snapshot as it leaves it, with no other call running
RunForms(ord, i, rd, done) ==
    IF i > Len(ord) THEN [computed |-> done, return_data |-> rd]
    ELSE LET c == Calculate(ord[i], rd, done)
         IN  RunForms(ord, i + 1, c.return_data,
                      [f \in DOMAIN done \cup {ord[i]} |->
                          IF f = ord[i] THEN c.lines ELSE done[f]])

\* what TaxEngine.calculate(snapshot) returns and leaves in the snapshot when
\* it runs alone
RunAlone(snapshot) ==
    LET s == TopologicalSort(EngineRegistry, FormDependencies)
        r == RunForms(s.order, 1, snapshot, <<>>)
    IN  [result |-> BuildResult(r.computed), return_data |-> r.return_data]

\* C19: two TaxEngine.calculate calls that run concurrently on distinct
\* snapshot objects, under every interleaving of their calculator steps, each
\* return the result the call returns when it runs alone (and leave their
\* snapshot as that run leaves it), and the parameter tables are unchanged
C19_ConcurrentCallsIsolated ==
    /\ tables = ParameterTables
    /\ \A t \in DOMAIN threads :
           threads[t].pc = "done" =>
               /\ threads[t].results = <<RunAlone(threads[t].snapshot).result>>
               /\ threads[t].return_data
                      = RunAlone(threads[t].snapshot).return_data

\* the two calls overlap on snapshots whose results differ: call 1 has
\* returned its result while call 2 is between two of its calculators
C19_Witness ==
    /\ DOMAIN threads = ThreadIds
    /\ threads[1].pc = "done"
    /\ threads[2].pc = "run"
    /\ "schedule_a" \in DOMAIN threads[2].computed
    /\ "form_1040" \notin DOMAIN threads[2].computed
    /\ Truthy(threads[1].snapshot.itemized_deduction)
    /\ Truthy(threads[2].snapshot.itemized_deduction)
    /\ threads[1].snapshot # threads[2].snapshot
    /\ threads[1].results[1].agi # RunAlone(threads[2].snapshot).result.agi
    /\ tables = ParameterTables

(***************************************************************************)
(* Effective rate                                                          *)
(***************************************************************************)
\* rate, in hundredths, is exactly total_tax / agi: the long division of
\* total_tax by agi ends after two decimals with these digits
IsQuotient(rate, total_tax, agi) ==
    LET q0 == total_tax \div agi
        r0 == total_tax % agi
        d1 == (r0 * 10) \div agi
        r1 == (r0 * 10) % agi
        d2 == (r1 * 10) \div agi
        r2 == (r1 * 10) % agi
    IN  rate = q0 * 100 + d1 * 10 + d2 /\ r2 = 0

\* C20: the effective_tax_rate of every result equals total_tax / AGI when
\* AGI is greater than zero, and 0 when AGI is zero
C20_EffectiveRateIsQuotient ==
    \A i \in 1..Len(results) :
        LET r == results[i]
        IN  /\ r.agi > 0 =>
                   IsQuotient(r.effective_tax_rate, r.total_tax, r.agi)
            /\ r.agi = 0 => r.effective_tax_rate = 0

\* a single filer with 75,000.00 of wages and nothing else: the tax is
\* 7,949.00, the quotient 0.105987 and the reported rate 0.11
C20_Witness ==
    /\ Len(results) >= 1
    /\ WagesOnly
    /\ results[1].agi = 7500000
    /\ results[1].total_tax = 794900
    /\ results[1].effective_tax_rate = 11
    /\ ~IsQuotient(results[1].effective_tax_rate, results[1].total_tax,
                   results[1].agi)

(***************************************************************************)
(* Income and payments of Form 1040                                        *)
(***************************************************************************)
RECURSIVE BoxTotal(_, _)
\* the sum of one box over a list of records, a record without the box
\* counting as 0
BoxTotal(records, box) ==
    IF records = <<>> THEN 0
    ELSE (IF box \in DOMAIN Head(records) THEN Head(records)[box] ELSE 0)
         + BoxTotal(Tail(records), box)

\* line 9 of a result less every income source but the social-security part
SocialSecurityPart(r) ==
    r.total_income
    - BoxTotal(GetList(return_data, "w2_incomes"), "box_1_wages")
    - BoxTotal(GetList(return_data, "interest_1099s"), "box_1_interest")
    - BoxTotal(GetList(return_data, "dividend_1099s"),
               "box_1a_ordinary_dividends")
    - BoxTotal(GetList(return_data, "retirement_1099rs"),
               "box_2a_taxable_amount")
    - r.form_results.schedule_d.line_21
    - BoxTotal(GetList(return_data, "government_1099gs"),
               "box_1_unemployment")

\* the social-security net benefits of the snapshot
NetBenefits == BoxTotal(GetList(return_data, "ssa_1099s"), "box_5_net_benefits")

\* C21 as stated: total income (line 9) equals total wages + taxable
\* interest + ordinary dividends + taxable retirement distributions + 85% of
\* the social-security net benefits + Schedule D line 21 + unemployment
\* compensation, and AGI (line 11) equals total income
C21_TotalIncome ==
    \A i \in 1..Len(results) :
        LET r == results[i]
        IN  /\ 100 * SocialSecurityPart(r) = SS_TAXABLE_PERCENT * NetBenefits
            /\ r.form_results.form_1040.line_9 = r.total_income
            /\ r.agi = r.total_income
            /\ r.form_results.form_1040.line_11 = r.agi

\* C21 amended: total income (line 9) equals total wages + taxable interest
\* + ordinary dividends + taxable retirement distributions + 85% of the
\* social-security net benefits rounded to the nearest cent + Schedule D
\* line 21 + unemployment compensation, and AGI (line 11) equals total income
C21_TotalIncomeRounded ==
    \A i \in 1..Len(results) :
        LET r == results[i]
            d == 100 * SocialSecurityPart(r) - SS_TAXABLE_PERCENT * NetBenefits
        IN  /\ -50 <= d /\ d <= 50
            /\ r.form_results.form_1040.line_9 = r.total_income
            /\ r.agi = r.total_income
            /\ r.form_results.form_1040.line_11 = r.agi

\* a result of a return with every kind of income, a capital loss above the
\* limit included, whose 85% of the net benefits is not a whole cent
C21_Witness ==
    /\ Len(results) >= 1
    /\ BoxTotal(GetList(return_data, "w2_incomes"), "box_1_wages") > 0
    /\ BoxTotal(GetList(return_data, "interest_1099s"), "box_1_interest") > 0
    /\ BoxTotal(GetList(return_data, "dividend_1099s"),
                "box_1a_ordinary_dividends") > 0
    /\ BoxTotal(GetList(return_data, "retirement_1099rs"),
                "box_2a_taxable_amount") > 0
    /\ BoxTotal(GetList(return_data, "government_1099gs"),
                "box_1_unemployment") > 0
    /\ (SS_TAXABLE_PERCENT * NetBenefits) % 100 # 0
    /\ results[1].form_results.schedule_d.line_21 = -CAPITAL_LOSS_LIMIT
    /\ results[1].total_income > 0

\* C22: total payments (line 33) equal the sum of the federal withholding
\* over all sources: W-2 box 2, 1099-INT box 4, 1099-DIV box 4, 1099-R box 4,
\* 1099-G box 4 and SSA-1099 box 6; the refundable credits (lines 28 and 29)
\* are zero
C22_TotalPayments ==
    \A i \in 1..Len(results) :
        LET r == results[i]
            f == r.form_results.form_1040
        IN  /\ r.total_payments
               = BoxTotal(GetList(return_data, "w2_incomes"),
                          "box_2_fed_tax_withheld")
                 + BoxTotal(GetList(return_data, "interest_1099s"),
                            "box_4_fed_tax_withheld")
                 + BoxTotal(GetList(return_data, "dividend_1099s"),
                            "box_4_fed_tax_withheld")
                 + BoxTotal(GetList(return_data, "retirement_1099rs"),
                            "box_4_fed_tax_withheld")
                 + BoxTotal(GetList(return_data, "government_1099gs"),
                            "box_4_fed_tax_withheld")
                 + BoxTotal(GetList(return_data, "ssa_1099s"),
                            "box_6_voluntary_withholding")
            /\ f.line_33 = r.total_payments
            /\ f.line_28 = 0
            /\ f.line_29 = 0
            /\ "schedule_8812" \notin DOMAIN r.form_results
            /\ "schedule_3" \notin DOMAIN r.form_results

\* a result of a return in which all six sources withheld tax
C22_Witness ==
    /\ Len(results) >= 1
    /\ \A k \in {"w2_incomes", "interest_1099s", "dividend_1099s",
                 "retirement_1099rs", "government_1099gs"} :
           BoxTotal(GetList(return_data, k),
                    IF k = "w2_incomes" THEN "box_2_fed_tax_withheld"
                    ELSE "box_4_fed_tax_withheld") > 0
    /\ BoxTotal(GetList(return_data, "ssa_1099s"),
                "box_6_voluntary_withholding") > 0
    /\ results[1].total_payments > 0

(***************************************************************************)
(* Form 8949 buckets                                                       *)
(***************************************************************************)
\* the positions of the sales whose tag is "short_term" or missing
ShortTermSales(sales) ==
    {i \in 1..Len(sales) :
        \/ "holding_period" \notin DOMAIN sales[i]
        \/ sales[i].holding_period = "short_term"}

\* the positions of the sales with any other tag
LongTermSales(sales) ==
    {i \in 1..Len(sales) :
        /\ "holding_period" \in DOMAIN sales[i]
        /\ sales[i].holding_period # "short_term"}

RECURSIVE SumOver(_, _, _)
\* the sum of one field over the sales at the positions of a set
SumOver(sales, positions, field) ==
    IF positions = {} THEN 0
    ELSE LET i == CHOOSE j \in positions : TRUE
         IN  Get(sales[i], field) + SumOver(sales, positions \ {i}, field)

\* proceeds - cost basis + adjustment, summed over the positions of a set
GainLossOver(sales, positions) ==
    SumOver(sales, positions, "proceeds")
    - SumOver(sales, positions, "cost_basis")
    + SumOver(sales, positions, "adjustment_amount")

\* C25: Form 8949 puts every sale in exactly one bucket, short-term when its
\* holding-period tag is "short_term" or missing and long-term for any other
\* tag; each bucket's proceeds, basis, adjustment and gain/loss totals are
\* the sums over its own sales, with per-sale gain/loss = proceeds - cost
\* basis + adjustment, and transaction_count is the number of sale records
C25_Form8949Buckets ==
    "form_8949" \in DOMAIN computed =>
        LET f == computed["form_8949"]
            sales == GetList(return_data, "capital_asset_sales")
            st == ShortTermSales(sales)
            lt == LongTermSales(sales)
        IN  /\ st \cap lt = {}
            /\ st \cup lt = 1..Len(sales)
            /\ f.st_proceeds = SumOver(sales, st, "proceeds")
            /\ f.st_basis = SumOver(sales, st, "cost_basis")
            /\ f.st_adjustment = SumOver(sales, st, "adjustment_amount")
            /\ f.st_gain_loss = GainLossOver(sales, st)
            /\ f.lt_proceeds = SumOver(sales, lt, "proceeds")
            /\ f.lt_basis = SumOver(sales, lt, "cost_basis")
            /\ f.lt_adjustment = SumOver(sales, lt, "adjustment_amount")
            /\ f.lt_gain_loss = GainLossOver(sales, lt)
            /\ f.transaction_count = Len(sales)

\* Form 8949 computed over a sale without a tag and a sale with a tag that is
\* neither holding period
C25_Witness ==
    /\ "form_8949" \in DOMAIN computed
    /\ LET sales == return_data.capital_asset_sales
       IN  /\ Len(sales) = 2
           /\ \E i \in 1..2 : "holding_period" \notin DOMAIN sales[i]
           /\ \E i \in 1..2 : /\ "holding_period" \in DOMAIN sales[i]
                              /\ sales[i].holding_period = "unknown"
    /\ computed["form_8949"].st_proceeds = 150000
    /\ computed["form_8949"].lt_gain_loss = 205000
    /\ computed["form_8949"].transaction_count = 2

(***************************************************************************)
(* Line 16                                                                 *)
(***************************************************************************)
\* C26: Form 1040 computes line 16 with the preferential-rate worksheet
\* exactly when qualified dividends are positive or Schedule D's net
\* long-term gain (max(0, line 15)) is positive, and with the ordinary-bracket
\* function otherwise; in both cases line 16 never exceeds the
\* ordinary-bracket tax on line 15
C26_Line16 ==
    \A i \in 1..Len(results) :
        LET forms == results[i].form_results
            f == forms.form_1040
            fs == FilingStatusOf(return_data)
            qualified_dividends == forms.schedule_b.qualified_dividends
            net_lt_gain == Max(0, forms.schedule_d.line_15)
            ordinary_tax == CalculateOrdinaryTax(f.line_15, fs)
        IN  /\ forms.schedule_d.net_lt_gain = net_lt_gain
            /\ (qualified_dividends > 0 \/ net_lt_gain > 0)
               => f.line_16 = CalculateTaxWithQdcg(f.line_15,
                                  qualified_dividends, net_lt_gain, fs)
            /\ ~(qualified_dividends > 0 \/ net_lt_gain > 0)
               => f.line_16 = ordinary_tax
            /\ f.line_16 <= ordinary_tax

\* a result without qualified dividends whose net long-term gain alone puts
\* line 16 below the ordinary-bracket tax on line 15
C26_Witness ==
    \E i \in 1..Len(results) :
        LET forms == results[i].form_results
        IN  /\ forms.schedule_b.qualified_dividends = 0
            /\ forms.schedule_d.line_15 > 0
            /\ forms.form_1040.line_15 > 0
            /\ forms.form_1040.line_16
               < CalculateOrdinaryTax(forms.form_1040.line_15,
                                      FilingStatusOf(return_data))

(***************************************************************************)
(* The order of a solve                                                    *)
(***************************************************************************)
\* a list holds every element of a set once and nothing else
IsPermutation(q, S) ==
    /\ Len(q) = Cardinality(S)
    /\ {q[i] : i \in 1..Len(q)} = S

\* C27: in one solve over an acyclic registry the computed order is a
\* permutation of the registered form ids, calculate is invoked exactly once
\* on each registered calculator, and the returned map has exactly the
\* registered form ids as its keys
C27_OrderIsPermutation ==
    ~HasCycle =>
        /\ pc \in {"run", "solved"} => IsPermutation(order, Registered)
        /\ \A i, j \in 1..Len(calls) :
               calls[i].form_id = calls[j].form_id => i = j
        /\ \A i \in 1..Len(calls) : calls[i].form_id = order[i]
        /\ pc = "solved" =>
               /\ IsPermutation([i \in 1..Len(calls) |-> calls[i].form_id],
                                Registered)
               /\ DOMAIN computed = Registered

\* a finished solve of three forms, two of which depend on the third, which
\* was registered last and is computed first
C27_Witness ==
    /\ pc = "solved"
    /\ Len(registry) = 3
    /\ Len(order) = 3
    /\ Len(calls) = 3
    /\ registry[3] \in RegisteredDeps(registry[1])
    /\ registry[3] \in RegisteredDeps(registry[2])
    /\ order[1] = registry[3]

(***************************************************************************)
(* Schedule A: SALT cap and medical floor                                  *)
(* Amounts are compared in fortieths of a cent, in which 30% of an excess  *)
(* of x cents is 12 x and 7.5% of an AGI of x cents is 3 x.               *)
(***************************************************************************)
\* max(10,000, 40,000 - 0.30 x (AGI - 500,000)) above 500,000, else 40,000
StatedSaltCap(agi) ==
    IF agi <= 50000000 THEN 40 * 4000000
    ELSE Max(40 * 1000000, 40 * 4000000 - 12 * (agi - 50000000))

\* the cap function returns the stated cap, which is between 10,000 and
\* 40,000 and not above the cap of any smaller sampled AGI
SaltCapAsStated ==
    called = "_calculate_salt_cap" =>
        /\ ret = StatedSaltCap(args.agi)
        /\ 40 * 1000000 <= ret /\ ret <= 40 * 4000000
        /\ \A x \in AgiSamples :
               x <= args.agi
               => CalculateSaltCap(x, args.filing_status) >= ret

\* min(state income tax + real estate tax + personal property tax, cap)
StatedSaltDeduction ==
    Min(40 * (Get(args.itemized_deduction, "state_income_tax_paid")
              + Get(args.itemized_deduction, "real_estate_tax_paid")
              + Get(args.itemized_deduction, "personal_property_tax")),
        StatedSaltCap(args.agi))

\* max(0, medical expenses - 7.5% of AGI)
StatedMedicalDeduction ==
    Max(0, 40 * Get(args.itemized_deduction, "medical_expenses")
           - 3 * args.agi)

\* C28 as stated: _calculate_salt_cap returns 40,000 for an AGI at or below
\* 500,000 and max(10,000, 40,000 - 0.30 x (AGI - 500,000)) above it, so the
\* cap is non-increasing in AGI and between 10,000 and 40,000; the SALT
\* deduction is min(state income tax + real estate tax + personal property
\* tax, cap) and the medical deduction is max(0, medical expenses - 7.5% of
\* AGI)
C28_SaltCapAndMedical ==
    /\ SaltCapAsStated
    /\ (called = "ScheduleA.calculate" /\ Truthy(args.itemized_deduction)) =>
           /\ 40 * ret.line_5e = StatedSaltDeduction
           /\ ret.line_7 = ret.line_5e
           /\ 40 * ret.line_4 = StatedMedicalDeduction

\* C28 amended: the cap function is as stated; the SALT deduction (lines 5e
\* and 7) is min(state income tax + real estate tax + personal property tax,
\* cap) rounded to the nearest cent and the medical deduction (line 4) is
\* max(0, medical expenses - 7.5% of AGI) rounded to the nearest cent
C28_SaltCapAndMedicalRounded ==
    /\ SaltCapAsStated
    /\ (called = "ScheduleA.calculate" /\ Truthy(args.itemized_deduction)) =>
           /\ 40 * ret.line_5e - StatedSaltDeduction \in -20..20
           /\ ret.line_7 = ret.line_5e
           /\ 40 * ret.line_4 - StatedMedicalDeduction \in -20..20

\* Schedule A of a return one cent above the phase-down threshold whose state
\* taxes exceed the cap and whose medical expenses exceed the floor: the cap
\* is 39,999.997 and line 5e is 40,000.00
C28_Witness ==
    /\ called = "ScheduleA.calculate"
    /\ args.agi = 50000001
    /\ Truthy(args.itemized_deduction)
    /\ Get(args.itemized_deduction, "state_income_tax_paid") = 5000000
    /\ StatedSaltCap(args.agi) = 40 * 4000000 - 12
    /\ ret.line_5e = 4000000
    /\ ret.line_4 >= 0

(***************************************************************************)
(* The stacking of the preferential income                                 *)
(***************************************************************************)
RECURSIVE SumAmounts(_)
\* the sum of the amounts of a list of portions
SumAmounts(portions) ==
    IF portions = <<>> THEN 0
    ELSE Head(portions).amount + SumAmounts(Tail(portions))

\* the lower bound of bracket i of a table
LowerLimit(brackets, i) == IF i = 1 THEN 0 ELSE brackets[i - 1].upper_limit

\* C29: in _calculate_stacked_ltcg_tax, for an ordinary income >= 0 and a
\* preferential income >= 0, the portions taxed in the preferential brackets
\* are each non-negative and sum exactly to the preferential income (each
\* portion lies inside its bracket and starts where the one before ended, so
\* nothing is left untaxed or taxed twice), the floor only increases, and it
\* ends at ordinary income + preferential income
C29_StackedPortions ==
    (/\ called = "_calculate_stacked_ltcg_tax"
     /\ args.ordinary_income >= 0
     /\ args.preferential_income >= 0) =>
        LET brackets == LTCG_TAX_BRACKETS[args.filing_status]
            p == ret.portions
        IN  /\ \A k \in 1..Len(p) :
                   /\ p[k].amount >= 0
                   /\ p[k].to = p[k].from + p[k].amount
                   /\ p[k].from >= LowerLimit(brackets, p[k].bracket)
                   /\ p[k].to <= brackets[p[k].bracket].upper_limit
                   /\ p[k].from = IF k = 1 THEN args.ordinary_income
                                  ELSE p[k - 1].to
            /\ ret.locals.income_floor >= args.ordinary_income
            /\ ret.locals.income_floor
               = args.ordinary_income + SumAmounts(p)
            /\ SumAmounts(p) + ret.locals.remaining
               = args.preferential_income
            /\ ret.returned =>
                   /\ SumAmounts(p) = args.preferential_income
                   /\ ret.locals.income_floor
                      = args.ordinary_income + args.preferential_income

\* a returned call whose preferential income started inside the 0% bracket
\* and was taxed in all three brackets
C29_Witness ==
    /\ called = "_calculate_stacked_ltcg_tax"
    /\ ret.returned
    /\ Len(ret.portions) = 3
    /\ \A k \in 1..3 : ret.portions[k].amount > 0
    /\ args.ordinary_income > 0
    /\ ret.value > 0

(***************************************************************************)
(* validation/rules/math_consistency.py                                    *)
(***************************************************************************)
\* _TOLERANCE = 0.01, in cents
TOLERANCE == 1

\* calculation_result.get("form_results", {}).get("form_1040", {})
Form1040Lines(calculation_result) ==
    IF "form_results" \in DOMAIN calculation_result
    THEN IF "form_1040" \in DOMAIN calculation_result.form_results
         THEN calculation_result.form_results["form_1040"] ELSE <<>>
    ELSE <<>>

\* form_1040_lines.get("line_6b", ss_benefits * 0.85): the estimate is not
\* rounded, so the value is kept as cents and hundredths of a cent
Line6bOrEstimate(form_1040_lines, ss_benefits) ==
    IF "line_6b" \in DOMAIN form_1040_lines
    THEN [c |-> form_1040_lines.line_6b, h |-> 0]
    ELSE AddProduct(Zero, ss_benefits * SS_TAXABLE_PERCENT)

\* abs(reported - computed_total) > _TOLERANCE for a computed total of v.c
\* cents and v.h hundredths of a cent, 0 <= v.h < 100
Mismatch(reported, v) ==
    LET d == reported - v.c
    IN  \/ d > TOLERANCE
        \/ d < -TOLERANCE
        \/ d = -TOLERANCE /\ v.h > 0

\* abs(a - b) > _TOLERANCE for two cent values
MismatchCents(a, b) == a - b > TOLERANCE \/ b - a > TOLERANCE

\* _check_total_income
CheckTotalIncome(rd, calculation_result) ==
    LET reported_total == Get(calculation_result, "total_income")
        wages == SumField(GetList(rd, "w2_incomes"), "box_1_wages")
        taxable_interest ==
            SumField(GetList(rd, "interest_1099s"), "box_1_interest")
        ordinary_dividends ==
            SumField(GetList(rd, "dividend_1099s"), "box_1a_ordinary_dividends")
        retirement_taxable ==
            SumField(GetList(rd, "retirement_1099rs"), "box_2a_taxable_amount")
        ss_benefits == SumField(GetList(rd, "ssa_1099s"), "box_5_net_benefits")
        form_1040_lines == Form1040Lines(calculation_result)
        ss_taxable == Line6bOrEstimate(form_1040_lines, ss_benefits)
        capital_gain_loss == GetLine(form_1040_lines, "line_7")
        unemployment ==
            SumField(GetList(rd, "government_1099gs"), "box_1_unemployment")
        computed_total ==
            [c |-> wages + taxable_interest + ordinary_dividends
                   + retirement_taxable + ss_taxable.c + capital_gain_loss
                   + unemployment,
             h |-> ss_taxable.h]
    IN  IF Mismatch(reported_total, computed_total)
        THEN <<"TOTAL_INCOME_MISMATCH">> ELSE <<>>

\* _check_agi
CheckAgi(calculation_result) ==
    LET total_income == Get(calculation_result, "total_income")
        agi == Get(calculation_result, "agi")
        adjustments == GetLine(Form1040Lines(calculation_result), "line_10")
        expected_agi == total_income - adjustments
    IN  IF MismatchCents(agi, expected_agi) THEN <<"AGI_MISMATCH">> ELSE <<>>

\* _check_taxable_income
CheckTaxableIncome(calculation_result) ==
    LET agi == Get(calculation_result, "agi")
        taxable_income == Get(calculation_result, "taxable_income")
        deduction_method ==
            IF "deduction_method" \in DOMAIN calculation_result
            THEN calculation_result.deduction_method ELSE "standard"
        deduction_amount ==
            IF deduction_method = "itemized"
            THEN Get(calculation_result, "itemized_deduction_amount")
            ELSE Get(calculation_result, "standard_deduction_amount")
        expected_taxable == Max(0, agi - deduction_amount)
    IN  IF MismatchCents(taxable_income, expected_taxable)
        THEN <<"TAXABLE_INCOME_MISMATCH">> ELSE <<>>

\* a version that adds up the W-2 withholding only
CheckWithholdingTotalsW2Only(rd, calculation_result) ==
    LET reported_withheld ==
            GetLine(Form1040Lines(calculation_result), "line_25d")
        computed_withheld ==
            SumField(GetList(rd, "w2_incomes"), "box_2_fed_tax_withheld")
    IN  IF MismatchCents(reported_withheld, computed_withheld)
        THEN <<"WITHHOLDING_MISMATCH">> ELSE <<>>

\* _check_withholding_totals
CheckWithholdingTotals(rd, calculation_result) ==
    LET reported_withheld ==
            GetLine(Form1040Lines(calculation_result), "line_25d")
        w2_withheld ==
            SumField(GetList(rd, "w2_incomes"), "box_2_fed_tax_withheld")
        interest_withheld ==
            SumField(GetList(rd, "interest_1099s"), "box_4_fed_tax_withheld")
        dividend_withheld ==
            SumField(GetList(rd, "dividend_1099s"), "box_4_fed_tax_withheld")
        retirement_withheld ==
            SumField(GetList(rd, "retirement_1099rs"), "box_4_fed_tax_withheld")
        gov_withheld ==
            SumField(GetList(rd, "government_1099gs"), "box_4_fed_tax_withheld")
        ss_withheld ==
            SumField(GetList(rd, "ssa_1099s"), "box_6_voluntary_withholding")
        computed_withheld ==
            w2_withheld + interest_withheld + dividend_withheld
            + retirement_withheld + gov_withheld + ss_withheld
    IN  IF MismatchCents(reported_withheld, computed_withheld)
        THEN <<"WITHHOLDING_MISMATCH">> ELSE <<>>

\* _check_refund_or_owed
CheckRefundOrOwed(calculation_result) ==
    LET total_payments == Get(calculation_result, "total_payments")
        total_tax == Get(calculation_result, "total_tax")
        refund == Get(calculation_result, "refund_amount")
        owed == Get(calculation_result, "amount_owed")
    IN  IF total_payments >= total_tax
        THEN (IF MismatchCents(refund, total_payments - total_tax)
              THEN <<"REFUND_MISMATCH">> ELSE <<>>)
             \o (IF owed > TOLERANCE
                 THEN <<"REFUND_AND_OWED_CONFLICT">> ELSE <<>>)
        ELSE (IF MismatchCents(owed, total_tax - total_payments)
              THEN <<"AMOUNT_OWED_MISMATCH">> ELSE <<>>)
             \o (IF refund > TOLERANCE
                 THEN <<"REFUND_AND_OWED_CONFLICT">> ELSE <<>>)

\* validate_math_consistency: the codes of the issues, in the order reported
ValidateMathConsistency(rd, calculation_result) ==
    IF ~Truthy(calculation_result) THEN <<>>
    ELSE CheckTotalIncome(rd, calculation_result)
         \o CheckAgi(calculation_result)
         \o CheckTaxableIncome(calculation_result)
         \o CheckWithholdingTotals(rd, calculation_result)
         \o CheckRefundOrOwed(calculation_result)

\* validate_math_consistency called with the snapshot and the result the
\* engine has just returned for it
ValidateResult ==
    /\ pc = "idle"
    /\ results # <<>>
    /\ called' = "validate_math_consistency"
    /\ ret' = [result |-> Len(results),
               issues |-> ValidateMathConsistency(return_data,
                                                  results[Len(results)])]
    /\ UNCHANGED <<args, half_up, solverVars, concVars, apiVars>>

\* SpecValidate: TaxEngine.calculate and the math-consistency rules on one
\* snapshot
NextValidate ==
    \/ Next
    \/ ValidateResult

SpecValidate == Init /\ [][NextValidate]_vars

(***************************************************************************)
(* C30                                                                     *)
(***************************************************************************)
\* C30: the math-consistency rules, run on a snapshot and the result that
\* TaxEngine.calculate produced from it, report no issue: the re-derived total
\* income, AGI, taxable income, withholding total and refund or amount owed
\* agree with the engine's values within one cent, also when the total
\* payments equal the total tax.
C30_ValidatorAgreesWithEngine ==
    called = "validate_math_consistency" => ret.issues = <<>>

\* the rules have run on the result of a return whose total payments equal
\* a total tax above zero, so that neither a refund nor an amount owed is due
C30_Witness ==
    /\ called = "validate_math_consistency"
    /\ pc = "idle"
    /\ ret.result = Len(results)
    /\ LET r == results[ret.result]
       IN  /\ r.total_tax > 0
           /\ r.total_payments = r.total_tax
           /\ r.refund_amount = 0
           /\ r.amount_owed = 0
           /\ r.total_income > 0

(***************************************************************************)
(* api/v1: the calculation, PDF and W-2 endpoints over the database        *)
(***************************************************************************)
\* the ids of the rows of table tax_returns
ReturnIds == {"r1", "r2"}

\* the return ids a request names: the two returns and an id of no return
RequestIds == ReturnIds \cup {"nonexistent"}

\* bound on the W-2 rows created: the ids they take are 1..MaxRecords
MaxRecords == 2

\* the ids W-2 rows take
W2Ids == 1..MaxRecords

\* the columns of CalculationResult that TaxEngine.calculate's keys can name
CalculationResultColumns ==
    {"total_income", "agi", "taxable_income", "total_tax", "total_credits",
     "total_payments", "refund_amount", "amount_owed", "effective_tax_rate",
     "marginal_tax_rate", "standard_deduction_amount",
     "itemized_deduction_amount", "deduction_method", "form_results",
     "required_forms", "errors", "warnings"}

\* {key: float(row.key or 0) for key in keys} of a row whose NULL columns
\* are left out
Floats(row, keys) == [k \in keys |-> Get(row, k)]

\* [f(row) for row in rows]
FloatsOfAll(rows, keys) == [i \in 1..Len(rows) |-> Floats(rows[i], keys)]

\* tax_return.calculation_result, and the rows a select by return_id finds
CalculationsOf(table, return_id) ==
    SelectSeq(table, LAMBDA c : c.return_id = return_id)

\* _build_return_data: the snapshot dict of the return, built anew from the
\* rows at each request
BuildReturnData(return_id) ==
    LET tax_return == tax_returns[return_id]
    IN  [filing_status |-> tax_return.filing_status,
         w2_incomes |->
             FloatsOfAll(SelectSeq(w2_incomes,
                                   LAMBDA w : w.return_id = return_id),
                         {"box_1_wages", "box_2_fed_tax_withheld",
                          "box_3_ss_wages", "box_4_ss_tax",
                          "box_5_medicare_wages", "box_6_medicare_tax"}),
         interest_1099s |->
             FloatsOfAll(tax_return.interest_1099s,
                         {"box_1_interest", "box_2_early_withdrawal_penalty",
                          "box_3_us_savings_bond", "box_4_fed_tax_withheld",
                          "box_8_tax_exempt_interest"}),
         dividend_1099s |->
             FloatsOfAll(tax_return.dividend_1099s,
                         {"box_1a_ordinary_dividends",
                          "box_1b_qualified_dividends",
                          "box_2a_total_capital_gain",
                          "box_4_fed_tax_withheld", "box_7_foreign_tax_paid"}),
         retirement_1099rs |->
             FloatsOfAll(tax_return.retirement_1099rs,
                         {"box_1_gross_distribution", "box_2a_taxable_amount",
                          "box_4_fed_tax_withheld"}),
         government_1099gs |->
             FloatsOfAll(tax_return.government_1099gs,
                         {"box_1_unemployment", "box_2_state_tax_refund",
                          "box_4_fed_tax_withheld"}),
         ssa_1099s |->
             FloatsOfAll(tax_return.ssa_1099s,
                         {"box_5_net_benefits", "box_6_voluntary_withholding"}),
         capital_asset_sales |->
             [i \in 1..Len(tax_return.capital_asset_sales) |->
                 LET sale == tax_return.capital_asset_sales[i]
                 IN  [proceeds |-> Get(sale, "proceeds"),
                      cost_basis |-> Get(sale, "cost_basis"),
                      adjustment_amount |-> Get(sale, "adjustment_amount"),
                      holding_period |->
                          IF "holding_period" \in DOMAIN sale
                          THEN sale.holding_period ELSE "short_term"]],
         itemized_deduction |->
             IF Truthy(tax_return.itemized_deduction)
             THEN Floats(tax_return.itemized_deduction,
                         {"medical_expenses", "state_income_tax_paid",
                          "real_estate_tax_paid", "personal_property_tax",
                          "mortgage_interest_1098",
                          "mortgage_interest_not_1098", "mortgage_points",
                          "investment_interest", "cash_charitable",
                          "noncash_charitable", "carryover_charitable",
                          "casualty_loss", "other_deductions"})
             ELSE None,
         dependents |-> <<>>]

RECURSIVE SolveForms(_, _, _, _)
\* solver.solve(return_data) from position i of the order on
SolveForms(ord, i, rd, done) ==
    IF i > Len(ord) THEN done
    ELSE LET c == Calculate(ord[i], rd,
                            OtherForms(ord[i], FormDependencies, done))
         IN  SolveForms(ord, i + 1, c.return_data,
                        [f \in DOMAIN done \cup {ord[i]} |->
                            IF f = ord[i] THEN c.lines ELSE done[f]])

\* TaxEngine().calculate(return_data), run within one request
TaxEngineCalculate(rd) ==
    BuildResult(SolveForms(TopologicalSort(EngineRegistry,
                                           FormDependencies).order,
                           1, rd, <<>>))

\* CalculationResult(return_id=return_id, **{the keys that are columns})
NewCalculationResult(id, return_id, calc_result) ==
    [k \in {"id", "return_id"}
           \cup (DOMAIN calc_result \cap CalculationResultColumns) |->
        IF k = "id" THEN id
        ELSE IF k = "return_id" THEN return_id ELSE calc_result[k]]

\* a version that leaves the existing row as it is
UpdateColumnsKeep(existing, calc_result) == existing

\* for key, value in calc_result.items(): setattr(existing, key, value) for
\* the keys the row has
UpdateColumns(existing, calc_result) ==
    [k \in DOMAIN existing |->
        IF k \in DOMAIN calc_result /\ k \in CalculationResultColumns
        THEN calc_result[k] ELSE existing[k]]

\* run_calculation, the upsert: the table after the flush
Upsert(return_id, calc_result) ==
    IF CalculationsOf(calculation_results, return_id) # <<>>
    THEN [i \in 1..Len(calculation_results) |->
             IF calculation_results[i].return_id = return_id
             THEN UpdateColumns(calculation_results[i], calc_result)
             ELSE calculation_results[i]]
    ELSE Append(calculation_results,
                NewCalculationResult(Len(calculation_results) + 1,
                                     return_id, calc_result))

\* a response: the request it answers, the return it names, the status code
\* and, for the calculation endpoints, the row sent back
Response(request, return_id, status, body) ==
    [request |-> request, return_id |-> return_id, status |-> status,
     body |-> body]

\* POST /returns/{return_id}/calculate
RunCalculation(return_id) ==
    /\ UNCHANGED <<solverVars, taxVars, concVars>>
    /\ IF return_id \notin DOMAIN tax_returns
       THEN /\ response' = Response("POST /calculate", return_id, 404, None)
            /\ UNCHANGED <<tax_returns, w2_incomes, calculation_results,
                           calculated_from>>
       ELSE LET rd == BuildReturnData(return_id)
                calc_result == TaxEngineCalculate(rd)
                flushed == Upsert(return_id, calc_result)
                saved == CalculationsOf(flushed, return_id)
            IN  IF Len(saved) = 1
                THEN /\ calculation_results' = flushed
                     /\ calculated_from' =
                            [calculated_from EXCEPT ![return_id] = rd]
                     /\ response' =
                            Response("POST /calculate", return_id, 200, saved[1])
                     /\ UNCHANGED <<tax_returns, w2_incomes>>
                ELSE /\ response' =
                            Response("POST /calculate", return_id, 500, None)
                     /\ UNCHANGED <<tax_returns, w2_incomes, calculation_results,
                                    calculated_from>>

\* GET /returns/{return_id}/calculation
GetCalculation(return_id) ==
    /\ UNCHANGED <<solverVars, taxVars, concVars>>
    /\ LET calc == CalculationsOf(calculation_results, return_id)
       IN  /\ response' =
                  IF calc = <<>>
                  THEN Response("GET /calculation", return_id, 404, None)
                  ELSE IF Len(calc) = 1
                  THEN Response("GET /calculation", return_id, 200, calc[1])
                  ELSE Response("GET /calculation", return_id, 500, None)
           /\ UNCHANGED <<tax_returns, w2_incomes, calculation_results,
                          calculated_from>>

\* a version that does not ask for a calculation result
GetReturnWithCalcNoCheck(return_id) ==
    IF return_id \notin DOMAIN tax_returns THEN 404 ELSE 0

\* pdf._get_return_with_calc: the status of the HTTPException it raises, 0
\* when it returns
GetReturnWithCalc(return_id) ==
    IF return_id \notin DOMAIN tax_returns THEN 404
    ELSE IF CalculationsOf(calculation_results, return_id) = <<>> THEN 400
    ELSE 0

\* GET /returns/{return_id}/pdf/summary
DownloadSummary(return_id) ==
    /\ UNCHANGED <<solverVars, taxVars, concVars>>
    /\ LET raised == GetReturnWithCalc(return_id)
       IN  /\ response' =
                  Response("GET /pdf/summary", return_id,
                           IF raised # 0 THEN raised ELSE 200, None)
           /\ UNCHANGED <<tax_returns, w2_incomes, calculation_results,
                          calculated_from>>

\* GET /returns/{return_id}/pdf/forms: the IRS templates are on disk or not
DownloadForms(return_id) ==
    /\ UNCHANGED <<solverVars, taxVars, concVars>>
    /\ LET raised == GetReturnWithCalc(return_id)
       IN  /\ \E templates_found \in BOOLEAN :
                  response' =
                      Response("GET /pdf/forms", return_id,
                               IF raised # 0 THEN raised
                               ELSE IF templates_found THEN 200 ELSE 500, None)
           /\ UNCHANGED <<tax_returns, w2_incomes, calculation_results,
                          calculated_from>>

\* the W-2 row with this id, None when there is none: db.get(W2Income, w2_id)
GetW2(w2_id) ==
    LET found == SelectSeq(w2_incomes, LAMBDA w : w.id = w2_id)
    IN  IF found = <<>> THEN None ELSE found[1]

\* default=generate_uuid: an id no row has, here one above the latest row's
NextW2Id ==
    IF w2_incomes = <<>> THEN 1 ELSE w2_incomes[Len(w2_incomes)].id + 1

\* POST /returns/{return_id}/income/w2: W2Create gives each box left out
\* its default 0
AddW2(return_id, data) ==
    /\ UNCHANGED <<solverVars, taxVars, concVars>>
    /\ IF return_id \notin DOMAIN tax_returns
       THEN /\ response' = Response("POST /income/w2", return_id, 404, None)
            /\ UNCHANGED <<tax_returns, w2_incomes, calculation_results,
                           calculated_from>>
       ELSE /\ NextW2Id \in W2Ids
            /\ w2_incomes' =
                   Append(w2_incomes,
                          [id |-> NextW2Id, return_id |-> return_id,
                           box_1_wages |-> Get(data, "box_1_wages"),
                           box_2_fed_tax_withheld |->
                               Get(data, "box_2_fed_tax_withheld")])
            /\ response' = Response("POST /income/w2", return_id, 201, None)
            /\ UNCHANGED <<tax_returns, calculation_results, calculated_from>>

\* PUT /returns/{return_id}/income/w2/{w2_id}: sets the fields the body has
UpdateW2(return_id, w2_id, data) ==
    /\ UNCHANGED <<solverVars, taxVars, concVars>>
    /\ LET w2 == GetW2(w2_id)
       IN  IF w2 = None \/ (w2 # None /\ w2.return_id # return_id)
           THEN /\ response' = Response("PUT /income/w2", return_id, 404, None)
                /\ UNCHANGED <<tax_returns, w2_incomes, calculation_results,
                               calculated_from>>
           ELSE /\ w2_incomes' =
                       [i \in 1..Len(w2_incomes) |->
                           IF w2_incomes[i].id = w2_id
                           THEN [k \in DOMAIN w2 |->
                                    IF k \in DOMAIN data THEN data[k] ELSE w2[k]]
                           ELSE w2_incomes[i]]
                /\ response' = Response("PUT /income/w2", return_id, 200, None)
                /\ UNCHANGED <<tax_returns, calculation_results, calculated_from>>

\* DELETE /returns/{return_id}/income/w2/{w2_id}
DeleteW2(return_id, w2_id) ==
    /\ UNCHANGED <<solverVars, taxVars, concVars>>
    /\ LET w2 == GetW2(w2_id)
       IN  IF w2 = None \/ (w2 # None /\ w2.return_id # return_id)
           THEN /\ response' = Response("DELETE /income/w2", return_id, 404, None)
                /\ UNCHANGED <<tax_returns, w2_incomes, calculation_results,
                               calculated_from>>
           ELSE /\ w2_incomes' = SelectSeq(w2_incomes, LAMBDA w : w.id # w2_id)
                /\ response' = Response("DELETE /income/w2", return_id, 204, None)
                /\ UNCHANGED <<tax_returns, calculation_results, calculated_from>>

\* the bodies of the W-2 requests: a new W-2, and a change of its box 2;
\* W-2s are added to r1 and to the id of no return
W2CreateSamples == {W2(7500000, 950000)}

W2UpdateSamples == {[box_2_fed_tax_withheld |-> 794900]}

\* the returns in the database: a single filer with no record yet, and a
\* joint return with interest, dividends, a sale and an itemized record,
\* some of whose columns are NULL
StoredReturns ==
    [r1 |-> [filing_status |-> "single",
             interest_1099s |-> <<>>, dividend_1099s |-> <<>>,
             retirement_1099rs |-> <<>>, government_1099gs |-> <<>>,
             ssa_1099s |-> <<>>, capital_asset_sales |-> <<>>,
             itemized_deduction |-> None],
     r2 |-> [filing_status |-> "married_filing_jointly",
             interest_1099s |->
                 <<[box_1_interest |-> 200000,
                    box_4_fed_tax_withheld |-> 1000]>>,
             dividend_1099s |->
                 <<[box_1a_ordinary_dividends |-> 300000,
                    box_1b_qualified_dividends |-> 200000]>>,
             retirement_1099rs |-> <<>>, government_1099gs |-> <<>>,
             ssa_1099s |->
                 <<[box_5_net_benefits |-> 1234567]>>,
             capital_asset_sales |->
                 <<[proceeds |-> 1500000, cost_basis |-> 1000000]>>,
             itemized_deduction |->
                 [state_income_tax_paid |-> 800000,
                  real_estate_tax_paid |-> 600000,
                  mortgage_interest_1098 |-> 1200000,
                  cash_charitable |-> 800000]]]

\* SpecApi: requests to the calculation, PDF and W-2 endpoints, one at a
\* time, each in its own database transaction
InitApi ==
    /\ tax_returns = StoredReturns
    /\ w2_incomes = <<>>
    /\ calculation_results = <<>>
    /\ response = NoResponse
    /\ calculated_from = [return_id \in ReturnIds |-> None]
    /\ SolverIdle
    /\ TaxIdle
    /\ ConcIdle

NextApi ==
    \/ \E return_id \in RequestIds : RunCalculation(return_id)
    \/ \E return_id \in RequestIds : GetCalculation(return_id)
    \/ \E return_id \in RequestIds : DownloadSummary(return_id)
    \/ \E return_id \in RequestIds : DownloadForms(return_id)
    \/ \E return_id \in {"r1", "nonexistent"}, data \in W2CreateSamples :
           AddW2(return_id, data)
    \/ \E return_id \in RequestIds, w2_id \in W2Ids,
           data \in W2UpdateSamples :
           UpdateW2(return_id, w2_id, data)
    \/ \E return_id \in RequestIds, w2_id \in W2Ids :
           DeleteW2(return_id, w2_id)

SpecApi == InitApi /\ [][NextApi]_vars

(***************************************************************************)
(* C23, C24                                                                *)
(***************************************************************************)
\* the result columns of a row of calculation_results
ResultColumns(row) == [k \in DOMAIN row \ {"id", "return_id"} |-> row[k]]

\* C23: once POST /calculate has succeeded for a return, whatever W-2 edits
\* and calculate requests come before and after, table calculation_results
\* holds exactly one row for the return, and its columns are what
\* TaxEngine.calculate returns for the data the return had at the most recent
\* calculate.
C23_OneResultOfLatestCalculate ==
    \A return_id \in ReturnIds :
        calculated_from[return_id] # None =>
            LET rows == CalculationsOf(calculation_results, return_id)
            IN  /\ Len(rows) = 1
                /\ ResultColumns(rows[1]) =
                       RunAlone(calculated_from[return_id]).result

\* r1 was calculated before r2 was (their rows have ids 1 and 2), and the
\* latest request has calculated r1 again, now with a W-2: r1 still has one
\* row, and it shows the wages and the withholding of the W-2
C23_Witness ==
    /\ response.request = "POST /calculate"
    /\ response.return_id = "r1"
    /\ response.status = 200
    /\ Len(calculation_results) = 2
    /\ calculation_results[1].return_id = "r1"
    /\ calculation_results[1].id = 1
    /\ calculation_results[2].return_id = "r2"
    /\ calculation_results[1].total_income = 7500000
    /\ calculation_results[1].total_payments = 950000
    /\ calculation_results[2].total_income > 0

\* C24: GET /calculation on an existing return answers 404 until a POST
\* /calculate has succeeded for it, and from then on 200 with the return's
\* own row, which holds the result of that calculation; the PDF summary and
\* forms downloads answer 400 until then; POST /calculate on an id of no
\* return answers 404 and leaves the tables as they are.
C24_StatusCodes ==
    [][LET r == response'
           never == /\ r.return_id \in ReturnIds
                    /\ calculated_from'[r.return_id] = None
       IN  /\ r.request = "GET /calculation" /\ r.return_id \in ReturnIds =>
                  IF never THEN r.status = 404
                  ELSE /\ r.status = 200
                       /\ r.body.return_id = r.return_id
                       /\ ResultColumns(r.body) =
                              RunAlone(calculated_from'[r.return_id]).result
           /\ r.request \in {"GET /pdf/summary", "GET /pdf/forms"} /\ never =>
                  r.status = 400
           /\ r.request = "POST /calculate" /\ r.return_id \notin ReturnIds =>
                  /\ r.status = 404
                  /\ UNCHANGED <<tax_returns, w2_incomes, calculation_results,
                                 calculated_from>>]_vars

\* GET /calculation has answered 200 for r1, with r1's row, while r2, which
\* has income of its own, has never been calculated
C24_Witness ==
    /\ response.request = "GET /calculation"
    /\ response.return_id = "r1"
    /\ response.status = 200
    /\ response.body.return_id = "r1"
    /\ response.body.total_income = 7500000
    /\ calculated_from["r2"] = None
    /\ CalculationsOf(calculation_results, "r2") = <<>>

====
